---------------------------- MODULE Spec2Model ----------------------------
(***************************************************************************)
(* A model of the starlane mesh bootstrap: the ProtoStar control loop      *)
(* (proto.rs), the ProtoTunnel handshake (proto.rs) and the LaneMiddle     *)
(* buffering loop (lane.rs).                                               *)
(*                                                                         *)
(* Specifications:                                                         *)
(*   Spec        the mesh of stars (closed constellations and one open     *)
(*               configuration whose peers are remote stars)               *)
(*   FairSpec    the closed constellations with weak fairness of the       *)
(*               stars' control loops                                      *)
(*   LookupSpec  the path lookups of a star over every small lanes map     *)
(*   SetSpec     the hop cache of a lane written twice                     *)
(*   TunnelSpec  two ProtoTunnels joined by local_tunnels, or one facing   *)
(*               a foreign peer                                            *)
(*   TunnelFairSpec  the same with weak fairness of each evolve()          *)
(*   LaneSpec    one LaneMiddle fed by a star and a connector              *)
(*   BufferSpec  one LaneMiddle sent more frames than its channel holds    *)
(*   TrackerSpec a ProtoTracker and the calls made on it                   *)
(*   ConnSpec    a tunnel connector, the lanes it serves and its controller*)
(*   ReconnectSpec  the local connector reset by its controller            *)
(*   WrapperSpec a LaneWrapper and the calls that set its remote_star       *)
(*   CodecSpec   two FrameCodex ends and the byte stream between them      *)
(*   HopSpec     a bootstrapping star whose remote peers announce Central  *)
(*               with hop counts of their choosing                         *)
(*   TriangleSpec three stars joined pairwise                              *)
(*   CommandSpec a bootstrapping star sent a frame on its command queue    *)
(*   ChainSpec   four stars in a line ending at Central                    *)
(***************************************************************************)
EXTENDS Integers, Sequences, FiniteSets, TLC

None == "None"
\* Option::None of an Option<usize> hop count
NoHops == -1
\* Option::None of ProtoStar.sequence
NoSequence == -1

\* ------------------------------------------------------------------ bounds
\* capacity of a directed link (lane buffer + tunnel queue) in the model
MaxQueue == 2
\* largest hop count carried by a CentralFound frame in the model
HopCap == 3
\* largest retry count the tracker reaches in the model
MaxRetries == 1
\* frames a remote (environment) peer sends in the open configuration
MaxInject == 1
\* sequence numbers Central hands out are 1..MaxSeq
MaxSeq == 2

\* ------------------------------------------------------------- identifiers
\* processes; the process "Central" is the one built with the central kind
Procs == {"A", "B", "Central", "D"}
\* StarKey::central()
CentralKey == "Central"
\* StarKey::new_with_subgraph(subgraph, 0), one key per subgraph path
SubgraphPaths == {"p1"}
NewWithSubgraph(subgraph) == "G" \o subgraph
StarKeys == Procs \cup {NewWithSubgraph(p) : p \in SubgraphPaths}
Links == {q \in Procs \X Procs : q[1] # q[2]}

VARIABLES
    topo,            \* the constellation that was built (fixed by Init)
    kind,            \* ProtoStar.kind: "central" | "mesh"; "env": a remote peer; "absent"
    key0,            \* the key handed to ProtoStar::new (None: unidentified)
    star_key,        \* ProtoStar.star_key
    sequence,        \* ProtoStar.sequence (the number the IdSeq was built from)
    status,          \* position in evolve(): "new" | "loop" | "evolved" | "panicked"
    lanes,           \* ProtoStar.lanes: remote StarKey -> LaneMeta.star_paths
    connector_ctrls, \* ProtoStar.connector_ctrls (its length)
    frame_hold,      \* ProtoStar.frame_hold: StarKey -> held frames
    tracker,         \* ProtoStar.tracker.case
    evolution_tx,    \* what was sent on the one-shot evolution channel (None: nothing)
    cmdq,            \* command_rx: the commands waiting
    net,             \* net[<<n, m>>]: frames sent by n on its lane to m, not yet received
    next_seq,        \* Central's count of sequences handed out
    injected,        \* frames sent so far by remote peers
    hs,              \* the two ProtoTunnels of a handshake
    pipe,            \* the two queues of local_tunnels
    lm,              \* a LaneMiddle with its command queue and its tunnels
    lk,              \* a path lookup over a star's lanes and its results
    tk,              \* a ProtoTracker on its own, with the timeouts it has yielded
    cn,              \* a connector, the lanes it serves and their tunnels
    lw,              \* a LaneWrapper and the calls made on it
    cx               \* a FrameCodex pair and the byte stream between them

meshVars == <<topo, kind, key0, star_key, sequence, status, lanes, connector_ctrls,
              frame_hold, tracker, evolution_tx, cmdq, net, next_seq, injected>>
tunnelVars == <<hs, pipe>>
laneVars == <<lm>>
lookupVars == <<lk>>
trackerVars == <<tk>>
connVars == <<cn>>
wrapperVars == <<lw>>
codecVars == <<cx>>
vars == <<meshVars, tunnelVars, laneVars, lookupVars, trackerVars, connVars, wrapperVars, codecVars>>

\* ------------------------------------------------------------------ frames
Blank == [t |-> "Close", hops |-> 0, from |-> None, to |-> None, pl |-> None,
          seq |-> 0, sub |-> None, version |-> 0, key |-> None]
\* Frame::Close
CloseFrame == Blank
\* Frame::Proto(ProtoFrame::CentralSearch)
CentralSearch == [Blank EXCEPT !.t = "CentralSearch"]
\* Frame::Proto(ProtoFrame::CentralFound(hops))
CentralFound(hops) == [Blank EXCEPT !.t = "CentralFound", !.hops = hops]
\* Frame::Proto(ProtoFrame::RequestSubgraphExpansion)
RequestSubgraphExpansion == [Blank EXCEPT !.t = "RequestSubgraphExpansion"]
\* Frame::Proto(ProtoFrame::GrantSubgraphExpansion(subgraph))
GrantSubgraphExpansion(subgraph) == [Blank EXCEPT !.t = "GrantSubgraphExpansion", !.sub = subgraph]
\* Frame::StarMessage(StarMessageInner{from, to, transaction: None, payload})
StarMessage(from, to, pl, seq) ==
    [Blank EXCEPT !.t = "StarMessage", !.from = from, !.to = to, !.pl = pl, !.seq = seq]

\* ------------------------------------------------------------- small helpers
Min(S) == CHOOSE x \in S : \A y \in S : x <= y
\* every order in which a HashMap may iterate over the keys S
Orders(S) == {f \in [1..Cardinality(S) -> S] : \A i, j \in 1..Cardinality(S) : f[i] = f[j] => i = j}
Range(s) == {s[i] : i \in 1..Len(s)}
NoPaths == [k \in StarKeys |-> NoHops]

\* ------------------------------------------------------- LaneMeta (lane.rs)
\* a plain cache lookup, without the test for the lane's own remote star
LaneGetHops_CacheOnly(ls, l, star) == ls[l][star]

\* LaneMeta::get_hops_to_star: 1 for the lane's own remote star, else the cache
LaneGetHops(ls, l, star) == IF star = l THEN 1 ELSE ls[l][star]

\* a set_hops_to_star that keeps the smaller of the old and the new count
LaneSetHops_KeepSmaller(ls, l, star, hops) ==
    IF ls[l][star] # NoHops /\ ls[l][star] < hops THEN ls
    ELSE [ls EXCEPT ![l] = [@ EXCEPT ![star] = hops]]

\* LaneMeta::set_hops_to_star / star_paths.insert: always overwrites
LaneSetHops(ls, l, star, hops) == [ls EXCEPT ![l] = [@ EXCEPT ![star] = hops]]

\* ------------------------------------------- ProtoStar path lookups (proto.rs)
\* usize::MAX, the initial min_hops of lane_with_shortest_path_to_star (the
\* largest integer of the model stands for it)
UsizeMax == 2147483647
\* the declared bound on path lengths
MAX_HOPS == 32

\* the test `hops < min_hops` of lane_with_shortest_path_to_star
ShorterThanMin(hops, min_hops) == hops < min_hops

\* the loop of lane_with_shortest_path_to_star: min_hops is never assigned
RECURSIVE LaneWithShortestFold(_, _, _, _, _, _)
LaneWithShortestFold(ls, ord, star, i, min_hops, rtn) ==
    IF i > Len(ord) THEN rtn
    ELSE LET hops == LaneGetHops(ls, ord[i], star)
         IN LaneWithShortestFold(ls, ord, star, i + 1, min_hops,
                IF hops # NoHops /\ ShorterThanMin(hops, min_hops) THEN ord[i] ELSE rtn)

\* ProtoStar::lane_with_shortest_path_to_star, iterating the lanes in order ord
LaneWithShortestPathToStar(ls, ord, star) ==
    LaneWithShortestFold(ls, ord, star, 1, UsizeMax, None)

\* a get_hops_to_star that keeps the larger count
HopsLess_Greater(hops, min_hops) == hops > min_hops

\* the comparison `hops < min_hops` of get_hops_to_star
HopsLess(hops, min_hops) == hops < min_hops

RECURSIVE GetHopsFold(_, _, _, _, _)
GetHopsFold(ls, ord, star, i, rtn) ==
    IF i > Len(ord) THEN rtn
    ELSE LET hops == LaneGetHops(ls, ord[i], star)
         IN GetHopsFold(ls, ord, star, i + 1,
                IF hops = NoHops THEN rtn
                ELSE IF rtn = NoHops THEN hops
                ELSE IF HopsLess(hops, rtn) THEN hops ELSE rtn)

\* ProtoStar::get_hops_to_star, iterating the lanes in order ord
GetHopsToStar(ls, ord, star) == GetHopsFold(ls, ord, star, 1, NoHops)

\* the comparison `hops < min.hops` of shortest_path_star_key
PathLess(hops, min_hops) == hops < min_hops

\* Option::None of shortest_path_star_key
NoPath == [to |-> None, next_lane |-> None, hops |-> NoHops]

RECURSIVE ShortestPathFold(_, _, _, _, _)
ShortestPathFold(ls, ord, to, i, rtn) ==
    IF i > Len(ord) THEN rtn
    ELSE LET hops == LaneGetHops(ls, ord[i], to)
             found == [to |-> to, next_lane |-> ord[i], hops |-> hops]
         IN ShortestPathFold(ls, ord, to, i + 1,
                IF hops = NoHops THEN rtn
                ELSE IF rtn.next_lane = None THEN found
                ELSE IF PathLess(hops, rtn.hops) THEN found ELSE rtn)

\* ProtoStar::shortest_path_star_key, iterating the lanes in order ord
ShortestPathStarKey(ls, ord, to) == ShortestPathFold(ls, ord, to, 1, NoPath)

\* --------------------------------------------------- sending (proto.rs)
\* one send: the lane chosen (None: no lane), whether a frame without a lane is held
Effect(lane, star, frame, hold) == [lane |-> lane, star |-> star, frame |-> frame, hold |-> hold]

\* ProtoStar::send_frame: the lane with a path to star, else frame_hold.add
SendFrame(ls, ord, star, frame) ==
    <<Effect(LaneWithShortestPathToStar(ls, ord, star), star, frame, TRUE)>>

\* ProtoStar::send_frame_no_hold: the lane with a path to star, else nothing
SendFrameNoHold(ls, ord, star, frame) ==
    <<Effect(LaneWithShortestPathToStar(ls, ord, star), star, frame, FALSE)>>

\* ProtoStar::send and send_no_hold build the send_frame future and drop it
\* without awaiting it: nothing is sent and nothing is held
Send(ls, ord, message) == <<>>
SendNoHold(ls, ord, message) == <<>>

\* the lanes a broadcast leaves out
Excluded(exclude, star) == star \in exclude

RECURSIVE BroadcastFold(_, _, _, _, _, _)
BroadcastFold(ls, ord, frame, exclude, hold, i) ==
    IF i > Len(ord) THEN <<>>
    ELSE (IF Excluded(exclude, ord[i]) THEN <<>>
          ELSE IF hold THEN SendFrame(ls, ord, ord[i], frame)
               ELSE SendFrameNoHold(ls, ord, ord[i], frame))
         \o BroadcastFold(ls, ord, frame, exclude, hold, i + 1)

\* ProtoStar::broadcast: send_frame(star, frame) for every lane key not excluded
Broadcast(ls, ord, frame, exclude) == BroadcastFold(ls, ord, frame, exclude, TRUE, 1)

\* ProtoStar::broadcast_no_hold
BroadcastNoHold(ls, ord, frame, exclude) == BroadcastFold(ls, ord, frame, exclude, FALSE, 1)

\* ------------------------------------------------- ProtoTracker (proto.rs)
\* a track that starts the new case at one retry
Track_Retried(frame, expect) == [frame |-> frame, expect |-> expect, retries |-> 1]

\* ProtoTracker::track: a fresh case with retries 0, replacing any other
Track(frame, expect) == [frame |-> frame, expect |-> expect, retries |-> 0]

\* ProtoTracker::new: no case
NoCase == [frame |-> Blank, expect |-> None, retries |-> 0]

\* ProtoTracker::has_expectation
HasExpectation(case) == case.expect # None

\* the predicates handed to track
Expect(expect, frame) ==
    CASE expect = "CentralFound" -> frame.t = "CentralFound"
      [] expect = "GrantSubgraphExpansion" -> frame.t = "GrantSubgraphExpansion"
      [] expect = "AssignSequence" -> frame.t = "StarMessage" /\ frame.pl = "AssignSequence"
      [] OTHER -> FALSE

\* a process that clears the slot whatever the frame
Process_Always(case, frame) == NoCase

\* ProtoTracker::process
Process(case, frame) ==
    IF HasExpectation(case) /\ Expect(case.expect, frame) THEN NoCase ELSE case


\* ------------------------------------- the ProtoStar control loop (proto.rs)
\* the state evolve() owns, of star n
Local(n) == [lanes |-> lanes[n], star_key |-> star_key[n], sequence |-> sequence[n],
             status |-> status[n], tracker |-> tracker[n], evolution_tx |-> evolution_tx[n],
             connector_ctrls |-> connector_ctrls[n]]
Out(s, effs) == [s |-> s, effs |-> effs]

\* the hop count a star that is hops away from Central announces (hops + 1 in
\* usize, as a build without overflow checks computes it)
CentralSearchReplyHops(hops) == IF hops = UsizeMax THEN 0 ELSE hops + 1

\* the CentralSearch arm: CentralFound(hops + 1) is broadcast, nothing is excluded
OnCentralSearch(s, L, ord) ==
    LET hops == GetHopsToStar(s.lanes, ord, CentralKey)
    IN IF hops # NoHops
       THEN Out(s, Broadcast(s.lanes, ord, CentralFound(CentralSearchReplyHops(hops)), {}))
       ELSE Out(s, <<>>)

\* a forward that passes the hop count on as it came
CentralFoundForwardHops_Same(hops) == hops

\* the hop count passed on after CentralFound(hops) was received (hops + 1 in
\* usize, as a build without overflow checks computes it)
CentralFoundForwardHops(hops) == IF hops = UsizeMax THEN 0 ELSE hops + 1

\* the exclude set of the CentralFound arm
ForwardExclude(L) == {L}

\* ProtoStar::send_sequence_request, star_key being set
SequenceRequest(star_key_) == StarMessage(star_key_, CentralKey, "RequestSequence", 0)

\* the CentralFound arm: star_paths.insert, broadcast to the other lanes,
\* send_sequence_request (whose star_key.unwrap() panics on None)
OnCentralFound(s, L, ord, hops) ==
    LET ls1 == LaneSetHops(s.lanes, L, CentralKey, hops)
        fwd == Broadcast(ls1, ord, CentralFound(CentralFoundForwardHops(hops)), ForwardExclude(L))
    IN IF s.star_key = None
       THEN Out([s EXCEPT !.lanes = ls1, !.status = "panicked"], fwd)
       ELSE Out([s EXCEPT !.lanes = ls1,
                          !.tracker = Track(SequenceRequest(s.star_key), "AssignSequence")],
                fwd \o SendFrame(ls1, ord, CentralKey, SequenceRequest(s.star_key)))

\* the GrantSubgraphExpansion arm: the key is replaced, then send_central_search
OnGrantSubgraphExpansion(s, ord, subgraph) ==
    Out([s EXCEPT !.star_key = NewWithSubgraph(subgraph),
                  !.tracker = Track(CentralSearch, "CentralFound")],
        Broadcast(s.lanes, ord, CentralSearch, {}))

\* a test that takes every StarMessage as its own
AddressedToSelf_Any(s, message) == TRUE

\* the test that a StarMessage is for this star
AddressedToSelf(s, message) == message.to = s.star_key

\* the StarMessage arm
OnStarMessage(s, ord, message) ==
    IF s.star_key # None
    THEN IF AddressedToSelf(s, message)
         THEN IF message.pl = "AssignSequence"
              THEN Out([s EXCEPT !.sequence = message.seq, !.evolution_tx = s.star_key,
                                 !.status = "evolved"], <<>>)
              ELSE Out(s, <<>>)
         ELSE Out(s, Send(s.lanes, ord, message))
    ELSE Out(s, <<>>)

\* an arm for other frames that ends the loop
OnUnsupported_Fails(s) == Out([s EXCEPT !.status = "panicked"], <<>>)

\* the `_` arm of the frame match (Frame::Close among others): a line is
\* printed
OnUnsupported(s) == Out(s, <<>>)

\* StarCommand::Frame(frame) arriving on lane L, after tracker.process
OnFrame(s, L, ord, frame) ==
    CASE frame.t = "CentralSearch" -> OnCentralSearch(s, L, ord)
      [] frame.t = "CentralFound" -> OnCentralFound(s, L, ord, frame.hops)
      [] frame.t = "GrantSubgraphExpansion" -> OnGrantSubgraphExpansion(s, ord, frame.sub)
      [] frame.t = "StarMessage" -> OnStarMessage(s, ord, frame)
      [] OTHER -> OnUnsupported(s)

\* ProtoStar::resend
Resend(s, ord, frame) ==
    CASE frame.t = "RequestSubgraphExpansion" -> BroadcastNoHold(s.lanes, ord, frame, {})
      [] frame.t = "CentralSearch" -> SendFrameNoHold(s.lanes, ord, CentralKey, frame)
      [] frame.t = "StarMessage" -> SendNoHold(s.lanes, ord, frame)
      [] OTHER -> <<>>

\* a check that counts every timeout twice
Check_Twice(case) == [case EXCEPT !.retries = @ + 2]

\* ProtoTracker::check once the timeout has elapsed: retries + 1
Check(case) == [case EXCEPT !.retries = @ + 1]

\* FrameHold::release(star) then send_frame(star, frame) for each frame released
RECURSIVE ReleaseFold(_, _, _, _, _)
ReleaseFold(ls, ord, star, frames, i) ==
    IF i > Len(frames) THEN <<>>
    ELSE SendFrame(ls, ord, star, frames[i]) \o ReleaseFold(ls, ord, star, frames, i + 1)

\* LaneMeta::new(lane) inserted under remote_star
InsertLane(ls, remote_star) ==
    [l \in DOMAIN ls \cup {remote_star} |-> IF l = remote_star THEN NoPaths ELSE ls[l]]

\* --------------------------------------------------- the frames on the wire
\* the frames of effs that were handed to lane l
SentOn(effs, l) ==
    LET on == SelectSeq(effs, LAMBDA e : e.lane = l)
    IN [i \in 1..Len(on) |-> on[i].frame]

\* the frames of effs that went to frame_hold under star
HeldFor(effs, star) ==
    LET held == SelectSeq(effs, LAMBDA e : e.lane = None /\ e.hold /\ e.star = star)
    IN [i \in 1..Len(held) |-> held[i].frame]

\* a link that comes up as soon as one end knows its key
TunnelUp_OneKey(n, m) == key0[n] # None \/ key0[m] # None

\* the two ProtoTunnels of the link between n and m both return a Tunnel only
\* when each end knows its own key (ProtoTunnel::evolve sends ReportStarKey only
\* then, and the other end waits for it)
TunnelUp(n, m) == key0[n] # None /\ key0[m] # None

\* star n ends a step in state s having made the sends effs; net0 is the wire
\* after the frame it handled (if any) was taken
Commit(n, s, effs, net0, hold0) ==
    /\ lanes' = [lanes EXCEPT ![n] = s.lanes]
    /\ star_key' = [star_key EXCEPT ![n] = s.star_key]
    /\ sequence' = [sequence EXCEPT ![n] = s.sequence]
    /\ status' = [status EXCEPT ![n] = s.status]
    /\ tracker' = [tracker EXCEPT ![n] = s.tracker]
    /\ evolution_tx' = [evolution_tx EXCEPT ![n] = s.evolution_tx]
    /\ connector_ctrls' = [connector_ctrls EXCEPT ![n] = s.connector_ctrls]
    /\ net' = [q \in Links |-> IF q[1] = n THEN net0[q] \o SentOn(effs, q[2]) ELSE net0[q]]
    /\ \A q \in Links : Len(net'[q]) <= MaxQueue
    /\ frame_hold' = [frame_hold EXCEPT ![n] = [k \in StarKeys |-> hold0[k] \o HeldFor(effs, k)]]

IsProto(n) == kind[n] \in {"central", "mesh"}

\* StarKind::is_central
IsCentral(k) == k = "central"

\* a central branch that keeps the key the star was built with
EvolveCentral_KeepKey(s) == [s EXCEPT !.sequence = 0, !.status = "evolved"]

\* the central branch of evolve(): the key and the sequence are set and the
\* Star is returned
EvolveCentral(s) == [s EXCEPT !.star_key = CentralKey, !.sequence = 0, !.status = "evolved"]

\* evolve() up to the loop: a central star is done at once, any other sends
\* its central search
Start(n) ==
    /\ IsProto(n) /\ status[n] = "new"
    /\ \E ord \in Orders(DOMAIN lanes[n]) :
         LET s == Local(n)
         IN IF IsCentral(kind[n])
            THEN Commit(n, EvolveCentral(s), <<>>, net, frame_hold[n])
            ELSE Commit(n, [s EXCEPT !.tracker = Track(CentralSearch, "CentralFound"),
                                     !.status = "loop"],
                        Broadcast(s.lanes, ord, CentralSearch, {}), net, frame_hold[n])
    /\ UNCHANGED <<tunnelVars, laneVars, lookupVars, trackerVars, connVars, wrapperVars, codecVars, topo, kind, key0, cmdq, next_seq, injected>>

\* StarCommand::AddLane(lane)
AddLane(n) ==
    /\ IsProto(n) /\ status[n] = "loop"
    /\ cmdq[n] # <<>> /\ Head(cmdq[n]).c = "AddLane"
    /\ LET lane == Head(cmdq[n])
           s == Local(n)
       IN IF lane.remote # None
          THEN LET ls1 == InsertLane(s.lanes, lane.remote)
               IN \E ord \in Orders(DOMAIN ls1) :
                    Commit(n, [s EXCEPT !.lanes = ls1],
                           ReleaseFold(ls1, ord, lane.remote, frame_hold[n][lane.remote], 1)
                              \o Broadcast(ls1, ord, CentralSearch, {}),
                           net, [frame_hold[n] EXCEPT ![lane.remote] = <<>>])
          ELSE Commit(n, s, <<>>, net, frame_hold[n])
    /\ cmdq' = [cmdq EXCEPT ![n] = Tail(@)]
    /\ UNCHANGED <<tunnelVars, laneVars, lookupVars, trackerVars, connVars, wrapperVars, codecVars, topo, kind, key0, next_seq, injected>>

\* StarCommand::AddConnectorController(connector_ctrl)
AddConnectorController(n) ==
    /\ IsProto(n) /\ status[n] = "loop"
    /\ cmdq[n] # <<>> /\ Head(cmdq[n]).c = "AddConnectorController"
    /\ Commit(n, [Local(n) EXCEPT !.connector_ctrls = @ + 1], <<>>, net, frame_hold[n])
    /\ cmdq' = [cmdq EXCEPT ![n] = Tail(@)]
    /\ UNCHANGED <<tunnelVars, laneVars, lookupVars, trackerVars, connVars, wrapperVars, codecVars, topo, kind, key0, next_seq, injected>>

\* what `hops + 1` does in the arm that handles frame: "none" when it does not
\* overflow; when it does, a build with overflow checks panics and one without
\* wraps
OverflowOutcomes(s, ord, frame) ==
    IF \/ frame.t = "CentralFound" /\ frame.hops = UsizeMax
       \/ frame.t = "CentralSearch" /\ GetHopsToStar(s.lanes, ord, CentralKey) = UsizeMax
    THEN {"wrap", "panic"} ELSE {"none"}

\* the arm that panics at `hops + 1`: what it did before is kept
OnOverflowPanic(s, L, frame) ==
    Out([s EXCEPT !.lanes = IF frame.t = "CentralFound"
                            THEN LaneSetHops(@, L, CentralKey, frame.hops) ELSE @,
                  !.status = "panicked"], <<>>)

\* the hop counts the model lets a star take from the wire
TriangleHopCap == 4
\* largest hop count carried by a CentralFound frame in the chain
ChainHopCap == 6
WithinHopBound(hops) ==
    \/ hops < (CASE topo = "triangle" -> TriangleHopCap
                  [] topo = "chain" -> ChainHopCap
                  [] OTHER -> HopCap)
    \/ hops \in {MAX_HOPS, UsizeMax}

\* StarCommand::Frame(frame) from the incoming side of lane L
RecvFrame(n, L) ==
    /\ IsProto(n) /\ status[n] = "loop"
    /\ L \in DOMAIN lanes[n] /\ TunnelUp(n, L) /\ net[<<L, n>>] # <<>>
    /\ LET frame == Head(net[<<L, n>>])
           s == [Local(n) EXCEPT !.tracker = Process(@, frame)]
       IN /\ frame.t = "CentralFound" => WithinHopBound(frame.hops)
          /\ \E ord \in Orders(DOMAIN lanes[n]) :
               \E outcome \in OverflowOutcomes(s, ord, frame) :
                  LET r == IF outcome = "panic" THEN OnOverflowPanic(s, L, frame)
                           ELSE OnFrame(s, L, ord, frame)
                  IN Commit(n, r.s, r.effs, [net EXCEPT ![<<L, n>>] = Tail(@)], frame_hold[n])
    /\ UNCHANGED <<tunnelVars, laneVars, lookupVars, trackerVars, connVars, wrapperVars, codecVars, topo, kind, key0, cmdq, next_seq, injected>>

\* StarCommand::FrameTimeout from tracker.check(): the frame is resent
FrameTimeout(n) ==
    /\ IsProto(n) /\ status[n] = "loop"
    /\ HasExpectation(tracker[n]) /\ tracker[n].retries < MaxRetries
    /\ \E ord \in Orders(DOMAIN lanes[n]) :
         LET s == [Local(n) EXCEPT !.tracker = Check(@)]
         IN Commit(n, s, Resend(s, ord, s.tracker.frame), net, frame_hold[n])
    /\ UNCHANGED <<tunnelVars, laneVars, lookupVars, trackerVars, connVars, wrapperVars, codecVars, topo, kind, key0, cmdq, next_seq, injected>>

\* lanes.get(future_index) on the vector of lane keys built before select_all
LaneAt(ord, future_index) ==
    IF future_index < Len(ord) THEN ord[future_index + 1] ELSE None

\* StarCommand::Frame(frame) taken from command_rx: its future is pushed after
\* the lanes' futures, so future_index is lanes.len(); lanes.get(..).unwrap()
\* panics on None
CommandFrame(n) ==
    /\ IsProto(n) /\ status[n] = "loop"
    /\ cmdq[n] # <<>> /\ Head(cmdq[n]).c = "Frame"
    /\ \E ord \in Orders(DOMAIN lanes[n]) :
         LET frame == Head(cmdq[n]).frame
             s == [Local(n) EXCEPT !.tracker = Process(@, frame)]
             lane_key == LaneAt(ord, Len(ord))
             r == IF lane_key = None
                  THEN Out([s EXCEPT !.status = "panicked"], <<>>)
                  ELSE OnFrame(s, lane_key, ord, frame)
         IN Commit(n, r.s, r.effs, net, frame_hold[n])
    /\ cmdq' = [cmdq EXCEPT ![n] = Tail(@)]
    /\ UNCHANGED <<tunnelVars, laneVars, lookupVars, trackerVars, connVars, wrapperVars, codecVars, topo, kind, key0, next_seq, injected>>

\* ------------------------------------------------ an evolved star (Star)
\* What a star does once evolve() has returned it: the discovery steps of the
\* specification, the sequence Central assigns, and forwarding.
IsStar(n) == IsProto(n) /\ status[n] = "evolved"

\* the distance of an evolved star to Central: 0 for Central itself
StarOwnHops(s, ord) ==
    IF s.star_key = CentralKey THEN 0 ELSE GetHopsToStar(s.lanes, ord, CentralKey)

\* a frame sent on lane L itself
StarSendOn(L, frame) == <<Effect(L, L, frame, TRUE)>>

RECURSIVE StarBroadcastFold(_, _, _, _)
StarBroadcastFold(ord, frame, exclude, i) ==
    IF i > Len(ord) THEN <<>>
    ELSE (IF ord[i] \in exclude THEN <<>> ELSE StarSendOn(ord[i], frame))
         \o StarBroadcastFold(ord, frame, exclude, i + 1)

\* a frame sent on every lane but the excluded ones
StarBroadcast(ord, frame, exclude) == StarBroadcastFold(ord, frame, exclude, 1)

\* a StarMessage for another star goes to the next hop of the shortest path,
\* or is held
StarForward(s, ord, message) ==
    <<Effect(ShortestPathStarKey(s.lanes, ord, message.to).next_lane, message.to, message, TRUE)>>

\* the sequence Central assigns next
AssignedSequence == next_seq + 1

\* a frame received by an evolved star on lane L
StarOnFrame(s, L, ord, frame) ==
    CASE frame.t = "CentralSearch" ->
           IF StarOwnHops(s, ord) # NoHops
           THEN Out(s, StarSendOn(L, CentralFound(StarOwnHops(s, ord) + 1)))
           ELSE Out(s, <<>>)
      [] frame.t = "CentralFound" ->
           Out([s EXCEPT !.lanes = LaneSetHops(s.lanes, L, CentralKey, frame.hops)],
               StarBroadcast(ord, CentralFound(frame.hops + 1), {L}))
      [] frame.t = "StarMessage" ->
           IF frame.to = s.star_key
           THEN IF s.star_key = CentralKey /\ frame.pl = "RequestSequence"
                THEN Out(s, StarSendOn(L, StarMessage(CentralKey, frame.from,
                                                     "AssignSequence", AssignedSequence)))
                ELSE Out(s, <<>>)
           ELSE Out(s, StarForward(s, ord, frame))
      [] OTHER -> Out(s, <<>>)

\* an evolved star takes a command: a lane is added under its peer, a
\* connector controller is kept
StarCommand(n) ==
    /\ IsStar(n) /\ cmdq[n] # <<>>
    /\ LET cmd == Head(cmdq[n])
           s == Local(n)
       IN IF cmd.c = "AddLane"
          THEN Commit(n, [s EXCEPT !.lanes = InsertLane(s.lanes, cmd.peer)], <<>>, net, frame_hold[n])
          ELSE Commit(n, [s EXCEPT !.connector_ctrls = @ + 1], <<>>, net, frame_hold[n])
    /\ cmdq' = [cmdq EXCEPT ![n] = Tail(@)]
    /\ UNCHANGED <<tunnelVars, laneVars, lookupVars, trackerVars, connVars, wrapperVars, codecVars, topo, kind, key0, next_seq, injected>>

\* an evolved star takes a frame from lane L
StarRecv(n, L) ==
    /\ IsStar(n)
    /\ L \in DOMAIN lanes[n] /\ TunnelUp(n, L) /\ net[<<L, n>>] # <<>>
    /\ LET frame == Head(net[<<L, n>>])
           s == Local(n)
       IN /\ frame.t = "CentralFound" => WithinHopBound(frame.hops)
          /\ \E ord \in Orders(DOMAIN lanes[n]) :
               LET r == StarOnFrame(s, L, ord, frame)
               IN Commit(n, r.s, r.effs, [net EXCEPT ![<<L, n>>] = Tail(@)], frame_hold[n])
          /\ next_seq' = IF /\ frame.t = "StarMessage" /\ frame.to = star_key[n]
                            /\ star_key[n] = CentralKey /\ frame.pl = "RequestSequence"
                         THEN (next_seq + 1) % MaxSeq ELSE next_seq
    /\ UNCHANGED <<tunnelVars, laneVars, lookupVars, trackerVars, connVars, wrapperVars, codecVars, topo, kind, key0, cmdq, injected>>

\* ------------------------------------------------------------ remote peers
\* the frames a remote peer e may put on its lane to a star
EnvFrames(e) ==
    {CentralSearch, CentralFound(1), CentralFound(2), CloseFrame}
    \cup {GrantSubgraphExpansion(p) : p \in SubgraphPaths}
    \cup {StarMessage(e, to, "AssignSequence", 1) : to \in {"A", "B"}}
    \cup {StarMessage(e, CentralKey, "RequestSequence", 0)}

\* a remote peer sends a frame
EnvSend(e, n) ==
    /\ e # n /\ kind[e] = "env" /\ IsProto(n)
    /\ injected < MaxInject /\ Len(net[<<e, n>>]) < MaxQueue
    /\ \E frame \in EnvFrames(e) : net' = [net EXCEPT ![<<e, n>>] = Append(@, frame)]
    /\ injected' = injected + 1
    /\ UNCHANGED <<tunnelVars, laneVars, lookupVars, trackerVars, connVars, wrapperVars, codecVars, topo, kind, key0, star_key, sequence, status, lanes, connector_ctrls,
                   frame_hold, tracker, evolution_tx, cmdq, next_seq>>

\* a remote peer takes a frame
EnvRecv(e, n) ==
    /\ e # n /\ kind[e] = "env" /\ net[<<n, e>>] # <<>>
    /\ net' = [net EXCEPT ![<<n, e>>] = Tail(@)]
    /\ UNCHANGED <<tunnelVars, laneVars, lookupVars, trackerVars, connVars, wrapperVars, codecVars, topo, kind, key0, star_key, sequence, status, lanes, connector_ctrls,
                   frame_hold, tracker, evolution_tx, cmdq, next_seq, injected>>

\* ------------------------------------------------------- constellations
AddLaneCmd(remote, peer) == [c |-> "AddLane", remote |-> remote, peer |-> peer]
AddConnectorCmd == [c |-> "AddConnectorController", remote |-> None, peer |-> None]

\* A and Central joined by one local lane (add_local_lane_ctrl); A may have
\* been built without a key (provision_link)
PairConfigs ==
    {[topo |-> "pair",
      kind |-> [A |-> "mesh", B |-> "absent", Central |-> "central", D |-> "absent"],
      key0 |-> [A |-> k, B |-> None, Central |-> CentralKey, D |-> None],
      cmdq |-> [A |-> <<AddLaneCmd(CentralKey, "Central"), AddConnectorCmd>>,
                B |-> <<>>,
                Central |-> <<AddLaneCmd(k, "A")>>, D |-> <<>>]] : k \in {None, "A"}}

\* A - B - Central in a line
LineConfigs ==
    {[topo |-> "line",
      kind |-> [A |-> "mesh", B |-> "mesh", Central |-> "central", D |-> "absent"],
      key0 |-> [A |-> "A", B |-> "B", Central |-> CentralKey, D |-> None],
      cmdq |-> [A |-> <<AddLaneCmd("B", "B"), AddConnectorCmd>>,
                B |-> b,
                Central |-> <<AddLaneCmd("B", "B")>>, D |-> <<>>]] :
     b \in {<<AddLaneCmd("A", "A"), AddLaneCmd(CentralKey, "Central")>>,
            <<AddLaneCmd(CentralKey, "Central"), AddLaneCmd("A", "A")>>}}

\* A with lanes to two remote stars; one variant starts with a lane that has
\* no remote_star
OpenConfigs ==
    {[topo |-> "open",
      kind |-> [A |-> "mesh", B |-> "env", Central |-> "env", D |-> "absent"],
      key0 |-> [A |-> "A", B |-> "B", Central |-> CentralKey, D |-> None],
      cmdq |-> [A |-> a, B |-> <<>>, Central |-> <<>>, D |-> <<>>]] :
     a \in {<<AddLaneCmd("B", "B"), AddLaneCmd(CentralKey, "Central")>>,
            <<AddLaneCmd(None, "B"), AddLaneCmd(CentralKey, "Central"), AddLaneCmd("B", "B")>>}}

\* a star of the central kind built with a key of its own, and a remote peer
OpenCentralConfigs ==
    {[topo |-> "opencentral",
      kind |-> [A |-> "central", B |-> "env", Central |-> "absent", D |-> "absent"],
      key0 |-> [A |-> "A", B |-> "B", Central |-> None, D |-> None],
      cmdq |-> [A |-> <<AddLaneCmd("B", "B")>>, B |-> <<>>, Central |-> <<>>, D |-> <<>>]]}

ClosedConfigs == PairConfigs \cup LineConfigs
AllConfigs == ClosedConfigs \cup OpenConfigs \cup OpenCentralConfigs

\* ProtoStar::new for every star of the constellation c
MeshInit(c) ==
    /\ topo = c.topo /\ kind = c.kind /\ key0 = c.key0 /\ cmdq = c.cmdq
    /\ star_key = c.key0
    /\ sequence = [n \in Procs |-> NoSequence]
    /\ status = [n \in Procs |-> IF c.kind[n] \in {"central", "mesh"} THEN "new" ELSE "env"]
    /\ lanes = [n \in Procs |-> <<>>]
    /\ connector_ctrls = [n \in Procs |-> 0]
    /\ frame_hold = [n \in Procs |-> [k \in StarKeys |-> <<>>]]
    /\ tracker = [n \in Procs |-> NoCase]
    /\ evolution_tx = [n \in Procs |-> None]
    /\ net = [q \in Links |-> <<>>]
    /\ next_seq = 0
    /\ injected = 0

\* placeholders for the parts of the state the mesh does not use
TunnelIdle == hs = <<>> /\ pipe = <<>>
LaneIdle == lm = <<>>
LookupIdle == lk = <<>>
TrackerIdle == tk = <<>>
ConnIdle == cn = <<>>
WrapperIdle == lw = <<>>
CodecIdle == cx = <<>>

Init ==
    /\ \E c \in AllConfigs : MeshInit(c)
    /\ TunnelIdle /\ LaneIdle /\ LookupIdle /\ TrackerIdle /\ ConnIdle /\ WrapperIdle /\ CodecIdle

StarStep(n) ==
    \/ Start(n)
    \/ AddLane(n)
    \/ AddConnectorController(n)
    \/ \E L \in Procs : RecvFrame(n, L)
    \/ StarCommand(n)
    \/ \E L \in Procs : StarRecv(n, L)

Next ==
    \/ \E n \in Procs : Start(n)
    \/ \E n \in Procs : AddLane(n)
    \/ \E n \in Procs : AddConnectorController(n)
    \/ \E n, L \in Procs : RecvFrame(n, L)
    \/ \E n \in Procs : FrameTimeout(n)
    \/ \E n \in Procs : StarCommand(n)
    \/ \E n, L \in Procs : StarRecv(n, L)
    \/ \E e, n \in Procs : EnvSend(e, n)
    \/ \E e, n \in Procs : EnvRecv(e, n)

Spec == Init /\ [][Next]_vars

FairInit ==
    /\ \E c \in ClosedConfigs : MeshInit(c)
    /\ TunnelIdle /\ LaneIdle /\ LookupIdle /\ TrackerIdle /\ ConnIdle /\ WrapperIdle /\ CodecIdle

FairNext ==
    \/ \E n \in Procs : Start(n)
    \/ \E n \in Procs : AddLane(n)
    \/ \E n \in Procs : AddConnectorController(n)
    \/ \E n, L \in Procs : RecvFrame(n, L)
    \/ \E n \in Procs : FrameTimeout(n)
    \/ \E n \in Procs : StarCommand(n)
    \/ \E n, L \in Procs : StarRecv(n, L)

\* the runtime keeps running a star whose control loop has an event ready; a
\* timeout is never forced
FairSpec ==
    /\ FairInit /\ [][FairNext]_vars
    /\ WF_vars(\E n \in Procs : StarStep(n))


\* --------------------------------------------------------- the triangle
\* A, B and Central joined pairwise
TriangleConfigs ==
    {[topo |-> "triangle",
      kind |-> [A |-> "mesh", B |-> "mesh", Central |-> "central", D |-> "absent"],
      key0 |-> [A |-> "A", B |-> "B", Central |-> CentralKey, D |-> None],
      cmdq |-> [A |-> <<AddLaneCmd("B", "B"), AddLaneCmd(CentralKey, "Central")>>,
                B |-> <<AddLaneCmd("A", "A"), AddLaneCmd(CentralKey, "Central")>>,
                Central |-> <<AddLaneCmd("A", "A"), AddLaneCmd("B", "B")>>, D |-> <<>>]]}

TriangleInit ==
    /\ \E c \in TriangleConfigs : MeshInit(c)
    /\ TunnelIdle /\ LaneIdle /\ LookupIdle /\ TrackerIdle /\ ConnIdle /\ WrapperIdle /\ CodecIdle

TriangleNext ==
    \/ \E n \in Procs : Start(n)
    \/ \E n \in Procs : AddLane(n)
    \/ \E n, L \in Procs : RecvFrame(n, L)
    \/ \E n \in Procs : StarCommand(n)
    \/ \E n, L \in Procs : StarRecv(n, L)

TriangleSpec == TriangleInit /\ [][TriangleNext]_vars

\* ------------------------------------------------------------ the chain
\* D - A - B - Central in a line
ChainConfigs ==
    {[topo |-> "chain",
      kind |-> [A |-> "mesh", B |-> "mesh", Central |-> "central", D |-> "mesh"],
      key0 |-> [A |-> "A", B |-> "B", Central |-> CentralKey, D |-> "D"],
      cmdq |-> [A |-> <<AddLaneCmd("B", "B"), AddLaneCmd("D", "D")>>,
                B |-> <<AddLaneCmd(CentralKey, "Central"), AddLaneCmd("A", "A")>>,
                Central |-> <<AddLaneCmd("B", "B")>>,
                D |-> <<AddLaneCmd("A", "A")>>]]}

ChainInit ==
    /\ \E c \in ChainConfigs : MeshInit(c)
    /\ TunnelIdle /\ LaneIdle /\ LookupIdle /\ TrackerIdle /\ ConnIdle /\ WrapperIdle /\ CodecIdle

ChainNext ==
    \/ \E n \in Procs : Start(n)
    \/ \E n \in Procs : AddLane(n)
    \/ \E n, L \in Procs : RecvFrame(n, L)
    \/ \E n \in Procs : StarCommand(n)
    \/ \E n, L \in Procs : StarRecv(n, L)

ChainSpec == ChainInit /\ [][ChainNext]_vars

\* ------------------------------------------------ hop counts off the wire
\* A bootstrapping star whose neighbours announce Central with hop counts of
\* their choosing, usize::MAX among them.
MaxFound == 2

\* the CentralFound frames a remote peer announces
FoundFrames == {CentralFound(1), CentralFound(MAX_HOPS), CentralFound(UsizeMax)}

\* a remote peer announces Central
EnvSendFound(e, n) ==
    /\ e # n /\ kind[e] = "env" /\ IsProto(n)
    /\ injected < MaxFound /\ Len(net[<<e, n>>]) < MaxQueue
    /\ \E frame \in FoundFrames : net' = [net EXCEPT ![<<e, n>>] = Append(@, frame)]
    /\ injected' = injected + 1
    /\ UNCHANGED <<tunnelVars, laneVars, lookupVars, trackerVars, connVars, wrapperVars, codecVars, topo, kind, key0, star_key, sequence, status, lanes, connector_ctrls,
                   frame_hold, tracker, evolution_tx, cmdq, next_seq>>

HopInit ==
    /\ \E c \in OpenConfigs : MeshInit(c)
    /\ TunnelIdle /\ LaneIdle /\ LookupIdle /\ TrackerIdle /\ ConnIdle /\ WrapperIdle /\ CodecIdle

HopNext ==
    \/ \E n \in Procs : Start(n)
    \/ \E n \in Procs : AddLane(n)
    \/ \E n, L \in Procs : RecvFrame(n, L)
    \/ \E n \in Procs : FrameTimeout(n)
    \/ \E e, n \in Procs : EnvSendFound(e, n)
    \/ \E e, n \in Procs : EnvRecv(e, n)

HopSpec == HopInit /\ [][HopNext]_vars

\* ------------------------------------------- frames on the command queue
\* StarCommand::Frame(frame) sent on the star's command_tx
FrameCmd(frame) == [c |-> "Frame", remote |-> None, peer |-> None, frame |-> frame]

\* A with lanes to two remote stars, and a holder of A's controller who sends
\* it a frame as a command, before, between or after the lanes
CommandConfigs ==
    {[topo |-> "command",
      kind |-> [A |-> "mesh", B |-> "env", Central |-> "env", D |-> "absent"],
      key0 |-> [A |-> "A", B |-> "B", Central |-> CentralKey, D |-> None],
      cmdq |-> [A |-> a, B |-> <<>>, Central |-> <<>>, D |-> <<>>]] :
     a \in UNION {{<<FrameCmd(f), AddLaneCmd("B", "B"), AddLaneCmd(CentralKey, "Central")>>,
                   <<AddLaneCmd("B", "B"), FrameCmd(f), AddLaneCmd(CentralKey, "Central")>>,
                   <<AddLaneCmd("B", "B"), AddLaneCmd(CentralKey, "Central"), FrameCmd(f)>>} :
                  f \in {CentralSearch, CentralFound(1), CloseFrame}}}

CommandInit ==
    /\ \E c \in CommandConfigs : MeshInit(c)
    /\ TunnelIdle /\ LaneIdle /\ LookupIdle /\ TrackerIdle /\ ConnIdle /\ WrapperIdle /\ CodecIdle

CommandNext ==
    \/ \E n \in Procs : Start(n)
    \/ \E n \in Procs : AddLane(n)
    \/ \E n, L \in Procs : RecvFrame(n, L)
    \/ \E n \in Procs : CommandFrame(n)
    \/ \E e, n \in Procs : EnvSendFound(e, n)
    \/ \E e, n \in Procs : EnvRecv(e, n)

CommandSpec == CommandInit /\ [][CommandNext]_vars

\* ------------------------------------------------------------ path lookups
\* no star is built: the state of the mesh while another part is examined
IdleConfig == [topo |-> "none",
               kind |-> [n \in Procs |-> "absent"],
               key0 |-> [n \in Procs |-> None],
               cmdq |-> [n \in Procs |-> <<>>]]
MeshIdle == MeshInit(IdleConfig)

\* the remote stars of the lanes a lookup is made over
LookupLanes == {"B", CentralKey, NewWithSubgraph("p1")}
\* the stars looked up
LookupTargets == {CentralKey, "B", "A"}
\* what a lane's star_paths may hold: an entry for Central, an entry for B
LookupPaths ==
    {[NoPaths EXCEPT ![CentralKey] = c, !["B"] = b] :
        c \in {NoHops} \cup (1..HopCap), b \in {NoHops, 2}}
\* every lanes map over a subset of LookupLanes
LookupLaneMaps == UNION {[K -> LookupPaths] : K \in SUBSET LookupLanes}

\* the stars a hop count is cached for
SetHopsStars == {CentralKey, "B"}
\* no set_hops_to_star was made
NoSet == [lane |-> None, star |-> None, hops |-> NoHops]

LookupInit ==
    /\ MeshIdle /\ TunnelIdle /\ LaneIdle /\ TrackerIdle /\ ConnIdle /\ WrapperIdle /\ CodecIdle
    /\ lk \in {[lanes |-> ls, done |-> FALSE, target |-> None, ord |-> <<>>,
                 hops |-> NoHops, path |-> NoPath, lane |-> None, set |-> NoSet,
                 prev |-> NoSet] :
                ls \in LookupLaneMaps}

\* lane.set_hops_to_star(star, hops) on the lane to l, as the CentralFound arm
\* does for Central; lk.set is the latest call and lk.prev the one before it
SetHops(l, star, hops) ==
    /\ ~lk.done /\ lk.set = NoSet
    /\ lk' = [lk EXCEPT !.lanes = LaneSetHops(lk.lanes, l, star, hops),
                        !.set = [lane |-> l, star |-> star, hops |-> hops]]
    /\ UNCHANGED <<meshVars, tunnelVars, laneVars, trackerVars, connVars, wrapperVars, codecVars>>

\* a second set_hops_to_star(star, hops) on the lane and for the star of the
\* first, as a later CentralFound on the same lane makes
SetHopsAgain(hops) ==
    /\ ~lk.done /\ lk.set # NoSet /\ lk.prev = NoSet
    /\ lk' = [lk EXCEPT !.lanes = LaneSetHops(lk.lanes, lk.set.lane, lk.set.star, hops),
                        !.set = [lk.set EXCEPT !.hops = hops],
                        !.prev = lk.set]
    /\ UNCHANGED <<meshVars, tunnelVars, laneVars, trackerVars, connVars, wrapperVars, codecVars>>

\* get_hops_to_star, shortest_path_star_key and lane_with_shortest_path_to_star
\* are called for one star on the same lanes map
Lookup(target, ord) ==
    /\ ~lk.done
    /\ lk' = [lk EXCEPT !.done = TRUE, !.target = target, !.ord = ord,
                        !.hops = GetHopsToStar(lk.lanes, ord, target),
                        !.path = ShortestPathStarKey(lk.lanes, ord, target),
                        !.lane = LaneWithShortestPathToStar(lk.lanes, ord, target)]
    /\ UNCHANGED <<meshVars, tunnelVars, laneVars, trackerVars, connVars, wrapperVars, codecVars>>

LookupNext ==
    \/ \E target \in LookupTargets : \E ord \in Orders(DOMAIN lk.lanes) : Lookup(target, ord)
    \/ \E l \in DOMAIN lk.lanes, star \in SetHopsStars, hops \in 1..HopCap : SetHops(l, star, hops)

LookupSpec == LookupInit /\ [][LookupNext]_vars

\* the hop cache of a lane written twice
SetNext ==
    \/ \E l \in DOMAIN lk.lanes, star \in SetHopsStars, hops \in 1..HopCap : SetHops(l, star, hops)
    \/ \E hops \in 1..HopCap : SetHopsAgain(hops)

SetSpec == LookupInit /\ [][SetNext]_vars

\* ------------------------------------------------- ProtoTunnel (proto.rs)
\* STARLANE_PROTOCOL_VERSION of this build
STARLANE_PROTOCOL_VERSION == 1
\* STARLANE_PROTOCOL_VERSION of a peer built from another release
OtherProtocolVersion == STARLANE_PROTOCOL_VERSION + 1

\* frames a foreign peer sends at most
MaxForeign == 2

\* the two ends local_tunnels() builds
Sides == {"high", "low"}
Other(side) == IF side = "high" THEN "low" ELSE "high"

\* Frame::Proto(ProtoFrame::StarLaneProtocolVersion(version))
StarLaneProtocolVersion(version) ==
    [Blank EXCEPT !.t = "StarLaneProtocolVersion", !.version = version]
\* Frame::Proto(ProtoFrame::ReportStarKey(star))
ReportStarKey(star) == [Blank EXCEPT !.t = "ReportStarKey", !.key = star]
\* rx.recv() returning None
NoFrame == [Blank EXCEPT !.t = "None"]
\* the pattern Frame::Proto(recv)
IsProtoFrame(frame) ==
    frame.t \in {"StarLaneProtocolVersion", "ReportStarKey", "CentralSearch", "CentralFound",
                 "RequestSubgraphExpansion", "GrantSubgraphExpansion"}

\* a version test that accepts every version
VersionMatches_Any(version, own) == TRUE

\* a version test that accepts only other versions
VersionMatches_Differs(version, own) == version # own

\* the guard `version == STARLANE_PROTOCOL_VERSION`, own being the version
\* this end was built with
VersionMatches(version, own) == version = own

\* the first receive of evolve(): the version is confirmed
FirstRecv(t, frame) ==
    IF frame # NoFrame /\ IsProtoFrame(frame)
    THEN IF frame.t = "StarLaneProtocolVersion"
         THEN IF VersionMatches(frame.version, t.version)
              THEN [t EXCEPT !.pc = "await_key"]
              ELSE [t EXCEPT !.pc = "err", !.err = "wrong version"]
         ELSE [t EXCEPT !.pc = "err", !.err = "unexpected star gram"]
    ELSE [t EXCEPT !.pc = "err", !.err = "disconnected"]

\* the second receive of evolve(): the remote key is taken
SecondRecv(t, frame) ==
    IF frame # NoFrame /\ IsProtoFrame(frame)
    THEN IF frame.t = "ReportStarKey"
         THEN [t EXCEPT !.pc = "ok", !.remote_star = frame.key]
         ELSE [t EXCEPT !.pc = "err", !.err = "unexpected star gram"]
    ELSE [t EXCEPT !.pc = "err", !.err = "disconnected!"]

\* the end has dropped its Sender and its Receiver
Dropped(side) == hs[side].pc \in {"err", "closed"}

\* tx.send(frame): the frame is queued unless the receiver is gone
TxSend(side, frames) ==
    pipe' = [pipe EXCEPT ![side] = IF Dropped(Other(side)) THEN @ ELSE @ \o frames]

\* rx.recv() is ready: a frame is queued, or the sender is gone
RxReady(side) == pipe[Other(side)] # <<>> \/ Dropped(Other(side))
\* what rx.recv() returns
RxRecv(side) == IF pipe[Other(side)] # <<>> THEN Head(pipe[Other(side)]) ELSE NoFrame
RxTake(side) ==
    pipe' = [pipe EXCEPT ![Other(side)] = IF @ # <<>> THEN Tail(@) ELSE @]

IsTunnel(side) == hs[side].kind = "proto"

\* evolve(): the version is sent
TunnelSendVersion(side) ==
    /\ IsTunnel(side) /\ hs[side].pc = "start"
    /\ TxSend(side, <<StarLaneProtocolVersion(hs[side].version)>>)
    /\ hs' = [hs EXCEPT ![side].pc = "version_sent"]
    /\ UNCHANGED <<meshVars, laneVars, lookupVars, trackerVars, connVars, wrapperVars, codecVars>>

\* evolve(): the key is reported if this end has one
TunnelSendKey(side) ==
    /\ IsTunnel(side) /\ hs[side].pc = "version_sent"
    /\ TxSend(side, IF hs[side].star # None THEN <<ReportStarKey(hs[side].star)>> ELSE <<>>)
    /\ hs' = [hs EXCEPT ![side].pc = "await_version"]
    /\ UNCHANGED <<meshVars, laneVars, lookupVars, trackerVars, connVars, wrapperVars, codecVars>>

\* evolve(): the first frame is received
TunnelRecvVersion(side) ==
    /\ IsTunnel(side) /\ hs[side].pc = "await_version" /\ RxReady(side)
    /\ hs' = [hs EXCEPT ![side] = FirstRecv(@, RxRecv(side))]
    /\ RxTake(side)
    /\ UNCHANGED <<meshVars, laneVars, lookupVars, trackerVars, connVars, wrapperVars, codecVars>>

\* evolve(): the second frame is received
TunnelRecvKey(side) ==
    /\ IsTunnel(side) /\ hs[side].pc = "await_key" /\ RxReady(side)
    /\ hs' = [hs EXCEPT ![side] = SecondRecv(@, RxRecv(side))]
    /\ RxTake(side)
    /\ UNCHANGED <<meshVars, laneVars, lookupVars, trackerVars, connVars, wrapperVars, codecVars>>

\* the frames a peer that is not a ProtoTunnel may send
ForeignFrames ==
    {StarLaneProtocolVersion(STARLANE_PROTOCOL_VERSION), StarLaneProtocolVersion(OtherProtocolVersion),
     ReportStarKey("B"), CentralSearch, CloseFrame}

\* a foreign peer sends a frame
ForeignSend(side) ==
    /\ hs[side].kind = "foreign" /\ hs[side].pc = "start"
    /\ Len(pipe[side]) < MaxForeign /\ hs[side].sent < MaxForeign
    /\ \E frame \in ForeignFrames : TxSend(side, <<frame>>)
    /\ hs' = [hs EXCEPT ![side].sent = @ + 1]
    /\ UNCHANGED <<meshVars, laneVars, lookupVars, trackerVars, connVars, wrapperVars, codecVars>>

\* a foreign peer closes the connection
ForeignClose(side) ==
    /\ hs[side].kind = "foreign" /\ hs[side].pc = "start"
    /\ hs' = [hs EXCEPT ![side].pc = "closed"]
    /\ UNCHANGED <<meshVars, laneVars, lookupVars, trackerVars, connVars, wrapperVars, codecVars, pipe>>

\* ProtoTunnel{star, tx, rx} before evolve()
NewTunnel(kind_, star, version) ==
    [kind |-> kind_, star |-> star, version |-> version, pc |-> "start",
     remote_star |-> None, err |-> None, sent |-> 0]

\* local_tunnels(high, low), or a ProtoTunnel facing a foreign peer
TunnelInit ==
    /\ MeshIdle /\ LaneIdle /\ LookupIdle /\ TrackerIdle /\ ConnIdle /\ WrapperIdle /\ CodecIdle
    /\ pipe = [side \in Sides |-> <<>>]
    /\ \E high \in {None, "A"} :
         \/ \E low \in {None, "B"}, version \in {STARLANE_PROTOCOL_VERSION, OtherProtocolVersion} :
               hs = [high |-> NewTunnel("proto", high, STARLANE_PROTOCOL_VERSION),
                     low |-> NewTunnel("proto", low, version)]
         \/ hs = [high |-> NewTunnel("proto", high, STARLANE_PROTOCOL_VERSION),
                  low |-> NewTunnel("foreign", None, STARLANE_PROTOCOL_VERSION)]

TunnelNext ==
    \/ \E side \in Sides : TunnelSendVersion(side)
    \/ \E side \in Sides : TunnelSendKey(side)
    \/ \E side \in Sides : TunnelRecvVersion(side)
    \/ \E side \in Sides : TunnelRecvKey(side)
    \/ \E side \in Sides : ForeignSend(side)
    \/ \E side \in Sides : ForeignClose(side)

TunnelSpec == TunnelInit /\ [][TunnelNext]_vars

\* the next step of evolve() at one end
TunnelStep(side) ==
    \/ TunnelSendVersion(side)
    \/ TunnelSendKey(side)
    \/ TunnelRecvVersion(side)
    \/ TunnelRecvKey(side)

\* the runtime keeps polling an evolve() that can make its next step
TunnelFairSpec ==
    /\ TunnelInit /\ [][TunnelNext]_vars
    /\ \A side \in Sides : WF_vars(TunnelStep(side))

\* ---------------------------------------------------- LaneMiddle (lane.rs)
\* LANE_QUEUE_SIZE, the capacity of the channel into LaneMiddle
LANE_QUEUE_SIZE == 32
\* frames the star sends on the lane
MaxFrames == 3
\* tunnels the connector attaches, numbered 1..MaxTunnels
MaxTunnels == 2

\* TunnelOutState::None
NoTunnel == 0

\* a frame of the lane: id counts the sends, att is the tunnel the connector
\* had attached when it was sent, dest the tunnel attached then or else the
\* next one to be attached
LaneFrame(id, att, dest) == [id |-> id, att |-> att, dest |-> dest]
\* Frame::Close
LaneClose == LaneFrame(0, NoTunnel, NoTunnel)

\* LaneCommand::Frame(frame)
FrameCommand(frame) == [c |-> "Frame", frame |-> frame, tunnel |-> NoTunnel]
\* LaneCommand::Tunnel(TunnelOutState::Out(tunnel)), LaneCommand::Tunnel(TunnelOutState::None)
TunnelCommand(tunnel) == [c |-> "Tunnel", frame |-> LaneClose, tunnel |-> tunnel]
\* LaneCommand::Shutdown
ShutdownCommand == [c |-> "Shutdown", frame |-> LaneClose, tunnel |-> NoTunnel]

\* a queue that puts the newest frame first
QueuePush_Front(queue, frame) == <<frame>> \o queue

\* self.queue.push(frame)
QueuePush(queue, frame) == Append(queue, frame)

\* tunnel.tx.send(frame) for every frame of frames, in order; the result of
\* send is not looked at, so a frame for a tunnel whose receiver is gone is
\* dropped
TunnelTxSend(m, tunnel, frames) ==
    IF tunnel \in m.lost THEN m.out ELSE [m.out EXCEPT ![tunnel] = @ \o frames]

\* one turn of the loop of LaneMiddle::run on command
LaneMiddleRun(m, command) ==
    CASE command.c = "Tunnel" ->
           [m EXCEPT !.out = IF command.tunnel # NoTunnel
                             THEN TunnelTxSend(m, command.tunnel, m.queue) ELSE @,
                     !.queue = IF command.tunnel # NoTunnel THEN <<>> ELSE @,
                     !.tunnel = command.tunnel]
      [] command.c = "Frame" ->
           IF m.tunnel # NoTunnel
           THEN [m EXCEPT !.out = TunnelTxSend(m, m.tunnel, <<command.frame>>)]
           ELSE [m EXCEPT !.queue = QueuePush(m.queue, command.frame)]
      [] OTHER ->
           [m EXCEPT !.out = IF m.tunnel # NoTunnel
                             THEN TunnelTxSend(m, m.tunnel, <<LaneClose>>) ELSE @,
                     !.running = FALSE]

\* out_tx.send(command): refused once LaneMiddle has closed its receiver
OutTxSend(m, command) == IF m.running THEN [m EXCEPT !.rx = Append(@, command)] ELSE m

\* ProtoLaneEndpoint::new: LaneMiddle is spawned with no tunnel and an empty queue
LaneInit ==
    /\ MeshIdle /\ TunnelIdle /\ LookupIdle /\ TrackerIdle /\ ConnIdle /\ WrapperIdle /\ CodecIdle
    /\ lm = [rx |-> <<>>, tunnel |-> NoTunnel, queue |-> <<>>,
             out |-> [t \in 1..MaxTunnels |-> <<>>], running |-> TRUE,
             lost |-> {}, late |-> {},
             attached |-> NoTunnel, next_tunnel |-> 1, next_frame |-> 1, shutdown |-> FALSE]

\* out_tx.send(LaneCommand::Frame(frame)).await, which waits while the channel
\* holds LANE_QUEUE_SIZE commands; at most max_frames frames are sent
SendFrameOnLane(max_frames) ==
    /\ lm.next_frame <= max_frames /\ Len(lm.rx) < LANE_QUEUE_SIZE
    /\ LET dest == IF lm.attached # NoTunnel THEN lm.attached ELSE lm.next_tunnel
           frame == LaneFrame(lm.next_frame, lm.attached, dest)
       IN lm' = [OutTxSend(lm, FrameCommand(frame)) EXCEPT
                    !.next_frame = @ + 1,
                    !.late = IF lm.attached \in lm.lost THEN @ \cup {lm.next_frame} ELSE @]
    /\ UNCHANGED <<meshVars, tunnelVars, lookupVars, trackerVars, connVars, wrapperVars, codecVars>>

\* the star sends a frame on the lane
LaneSendFrame == SendFrameOnLane(MaxFrames)

\* a connector hands over the tunnel its handshake produced
LaneAttach ==
    /\ lm.attached = NoTunnel /\ lm.next_tunnel <= MaxTunnels /\ Len(lm.rx) < LANE_QUEUE_SIZE
    /\ lm' = [OutTxSend(lm, TunnelCommand(lm.next_tunnel)) EXCEPT
                 !.attached = lm.next_tunnel, !.next_tunnel = @ + 1]
    /\ UNCHANGED <<meshVars, tunnelVars, lookupVars, trackerVars, connVars, wrapperVars, codecVars>>

\* a connector that was told to reset or to close sets the tunnel to None
LaneDetach ==
    /\ lm.attached # NoTunnel /\ Len(lm.rx) < LANE_QUEUE_SIZE
    /\ lm' = [OutTxSend(lm, TunnelCommand(NoTunnel)) EXCEPT !.attached = NoTunnel]
    /\ UNCHANGED <<meshVars, tunnelVars, lookupVars, trackerVars, connVars, wrapperVars, codecVars>>

\* the lane is shut down
LaneShutdown ==
    /\ ~lm.shutdown /\ Len(lm.rx) < LANE_QUEUE_SIZE
    /\ lm' = [OutTxSend(lm, ShutdownCommand) EXCEPT !.shutdown = TRUE]
    /\ UNCHANGED <<meshVars, tunnelVars, lookupVars, trackerVars, connVars, wrapperVars, codecVars>>

\* the writer task of the attached tunnel's FrameCodex ends on an error and
\* drops the receiver of the tunnel's channel
TunnelLost ==
    /\ lm.attached # NoTunnel /\ lm.attached \notin lm.lost
    /\ lm' = [lm EXCEPT !.lost = @ \cup {lm.attached}]
    /\ UNCHANGED <<meshVars, tunnelVars, lookupVars, trackerVars, connVars, wrapperVars, codecVars>>

\* LaneMiddle::run takes the next command
LaneMiddleStep ==
    /\ lm.running /\ lm.rx # <<>>
    /\ lm' = LaneMiddleRun([lm EXCEPT !.rx = Tail(@)], Head(lm.rx))
    /\ UNCHANGED <<meshVars, tunnelVars, lookupVars, trackerVars, connVars, wrapperVars, codecVars>>

LaneNext ==
    \/ LaneSendFrame
    \/ LaneAttach
    \/ LaneDetach
    \/ LaneShutdown
    \/ TunnelLost
    \/ LaneMiddleStep

LaneSpec == LaneInit /\ [][LaneNext]_vars

\* a lane that is sent more frames than its channel holds, with or without a
\* tunnel
MaxBuffered == 33

BufferSendFrame == SendFrameOnLane(MaxBuffered)

BufferNext ==
    \/ BufferSendFrame
    \/ LaneAttach
    \/ LaneMiddleStep

BufferSpec == LaneInit /\ [][BufferNext]_vars

\* ------------------------------------- ProtoTracker on its own (proto.rs)
\* calls made on the tracker
MaxOps == 4

\* the three calls of track in ProtoStar: send_central_search,
\* send_expansion_request and send_sequence_request
TrackerCalls ==
    {[frame |-> CentralSearch, expect |-> "CentralFound"],
     [frame |-> RequestSubgraphExpansion, expect |-> "GrantSubgraphExpansion"],
     [frame |-> SequenceRequest("A"), expect |-> "AssignSequence"]}

\* frames handed to process
TrackerFrames ==
    {CentralFound(1), GrantSubgraphExpansion("p1"),
     StarMessage(CentralKey, "A", "AssignSequence", 1), CentralSearch}

\* what check() returns: Some(FrameTimeout{frame, retries}) of the case after
\* its retries were counted up, or None (retries 0) when there is no case
CheckYield(case) ==
    IF HasExpectation(case)
    THEN [frame |-> case.frame, retries |-> Check(case).retries]
    ELSE [frame |-> Blank, retries |-> 0]

\* a call and what it returned, as kept in tk.log
TrackerEvent(op, frame, retries) == [op |-> op, frame |-> frame, retries |-> retries]

\* ProtoTracker::new
TrackerInit ==
    /\ MeshIdle /\ TunnelIdle /\ LaneIdle /\ LookupIdle /\ ConnIdle /\ WrapperIdle /\ CodecIdle
    /\ tk = [case |-> NoCase, log |-> <<>>]

\* tracker.track(frame, expect)
TrackerTrack(call) ==
    /\ Len(tk.log) < MaxOps
    /\ tk' = [case |-> Track(call.frame, call.expect),
              log |-> Append(tk.log, TrackerEvent("track", call.frame, 0))]
    /\ UNCHANGED <<meshVars, tunnelVars, laneVars, lookupVars, connVars, wrapperVars, codecVars>>

\* tracker.process(&frame)
TrackerProcess(frame) ==
    /\ Len(tk.log) < MaxOps
    /\ tk' = [case |-> Process(tk.case, frame),
              log |-> Append(tk.log, TrackerEvent("process", frame, 0))]
    /\ UNCHANGED <<meshVars, tunnelVars, laneVars, lookupVars, connVars, wrapperVars, codecVars>>

\* tracker.check() runs to its end: the timeout of the case, if any, has elapsed
TrackerCheck ==
    /\ Len(tk.log) < MaxOps
    /\ LET yield == CheckYield(tk.case)
       IN tk' = [case |-> IF HasExpectation(tk.case) THEN Check(tk.case) ELSE tk.case,
                 log |-> Append(tk.log, TrackerEvent("check", yield.frame, yield.retries))]
    /\ UNCHANGED <<meshVars, tunnelVars, laneVars, lookupVars, connVars, wrapperVars, codecVars>>

TrackerNext ==
    \/ \E call \in TrackerCalls : TrackerTrack(call)
    \/ \E frame \in TrackerFrames : TrackerProcess(frame)
    \/ TrackerCheck

TrackerSpec == TrackerInit /\ [][TrackerNext]_vars

\* ------------------------------------------- tunnel connectors (lane.rs)
\* commands sent to a connector
MaxCommands == 2

\* LocalTunnelConnector serves the lanes high and low, ClientSideTunnelConnector
\* the one lane it was built for
ConnSides(kind_) == IF kind_ = "local" THEN <<"high", "low">> ELSE <<"high">>

\* the capacity of the connector's command channel
CommandQueueSize(kind_) == IF kind_ = "local" THEN 1 ELSE 16

\* LaneCommand::Tunnel(TunnelOutState::None) to every lane of the connector
DetachAll(kind_, mid) ==
    [side \in DOMAIN mid |->
        IF side \in Range(ConnSides(kind_)) THEN OutTxSend(mid[side], TunnelCommand(NoTunnel))
        ELSE mid[side]]

\* the TunnelOut of tunnel t on the lane `side` still exists: LaneMiddle holds
\* it, or it waits in a LaneCommand::Tunnel, or the connector has yet to hand
\* it over
SenderAlive(side, t) ==
    \/ cn.mid[side].tunnel = t
    \/ TunnelCommand(t) \in Range(cn.mid[side].rx)
    \/ (cn.pc = "attach" /\ cn.built = t /\ \E i \in cn.att..Len(ConnSides(cn.kind)) :
                                                 ConnSides(cn.kind)[i] = side)

\* the frames of tunnel t that the IncomingSide of `side` has not taken yet
Incoming(side, t) ==
    LET sent == cn.mid[Other(side)].out[t]
    IN SubSeq(sent, cn.inc[side].taken + 1, Len(sent))

\* ProtoLaneEndpoint::new for both lanes, then the connector's new
ConnInit ==
    /\ MeshIdle /\ TunnelIdle /\ LaneIdle /\ LookupIdle /\ TrackerIdle /\ WrapperIdle /\ CodecIdle
    /\ \E kind_ \in {"local", "client"} :
         cn = [kind |-> kind_, pc |-> "loop", att |-> 1, built |-> 0,
               cmds |-> <<>>, sent |-> 0, ctrl |-> TRUE, closed |-> FALSE, failed |-> 0,
               last |-> "None",
               commands |-> {},
               mid |-> [side \in Sides |->
                          [rx |-> <<>>, tunnel |-> NoTunnel, queue |-> <<>>,
                           out |-> [t \in 1..MaxTunnels |-> <<>>], running |-> TRUE,
                           lost |-> {}]],
               inc |-> [side \in Sides |->
                          [tunnel |-> NoTunnel, pending |-> <<>>, taken |-> 0,
                           surfaced |-> <<>>, closes |-> <<>>]],
               next_frame |-> 1]

\* where run() goes when a handshake has failed: the local connector sleeps
\* and then waits for the next command, the client connector leaves its loop
AfterFailure(kind_) == IF kind_ = "local" THEN "await_command" ELSE "done"

\* the top of the loop of run(): local_tunnels() and both evolve() for the
\* local connector; TcpStream::connect, FrameCodex::new and evolve() for the
\* client connector. Err: an evolve() returned Err
ConnectorBuild ==
    /\ cn.pc = "loop" /\ cn.built < MaxTunnels
    /\ \E result \in {"Ok", "Err"} :
         cn' = IF result = "Ok"
               THEN [cn EXCEPT !.built = @ + 1, !.pc = "attach", !.att = 1, !.last = "Ok"]
               ELSE [cn EXCEPT !.failed = @ + 1, !.pc = AfterFailure(cn.kind), !.last = "Err"]
    /\ UNCHANGED <<meshVars, tunnelVars, laneVars, lookupVars, trackerVars, wrapperVars, codecVars>>

\* out_tx.send(LaneCommand::Tunnel(Out(..))) and in_tx.send(TunnelInState::In(..))
\* for the next lane; the tunnel_receiver channel holds one value
ConnectorAttach ==
    /\ cn.pc = "attach"
    /\ LET side == ConnSides(cn.kind)[cn.att]
       IN /\ Len(cn.inc[side].pending) < 1
          /\ cn' = [cn EXCEPT !.mid[side] = OutTxSend(@, TunnelCommand(cn.built)),
                              !.inc[side].pending = Append(@, cn.built),
                              !.att = @ + 1,
                              !.pc = IF cn.att = Len(ConnSides(cn.kind))
                                     THEN "await_command" ELSE "attach"]
    /\ UNCHANGED <<meshVars, tunnelVars, laneVars, lookupVars, trackerVars, wrapperVars, codecVars>>

\* command_rx.recv() returns. In the local connector the pattern Some(Reset)
\* is a binding that takes every command, so Close is handled by the arm for
\* Reset, and only a closed channel (None) ends run(); the client connector
\* does not look at what it received
ConnectorRecvCommand ==
    /\ cn.pc = "await_command" /\ (cn.cmds # <<>> \/ ~cn.ctrl)
    /\ LET none == cn.cmds = <<>>
           command == IF none THEN "None" ELSE Head(cn.cmds)
       IN cn' = [cn EXCEPT !.cmds = IF none THEN @ ELSE Tail(@),
                           !.closed = @ \/ command = "Close",
                           !.commands = @ \cup {command},
                           !.mid = DetachAll(cn.kind, @),
                           !.pc = IF cn.kind = "local" /\ none THEN "done" ELSE "loop"]
    /\ UNCHANGED <<meshVars, tunnelVars, laneVars, lookupVars, trackerVars, wrapperVars, codecVars>>

\* ConnectorController.command_tx.send(command)
ControllerSend(command) ==
    /\ cn.ctrl /\ cn.sent < MaxCommands /\ cn.pc # "done"
    /\ Len(cn.cmds) < CommandQueueSize(cn.kind)
    /\ cn' = [cn EXCEPT !.cmds = Append(@, command), !.sent = @ + 1]
    /\ UNCHANGED <<meshVars, tunnelVars, laneVars, lookupVars, trackerVars, wrapperVars, codecVars>>

\* the ConnectorController is dropped
ControllerDrop ==
    /\ cn.ctrl
    /\ cn' = [cn EXCEPT !.ctrl = FALSE]
    /\ UNCHANGED <<meshVars, tunnelVars, laneVars, lookupVars, trackerVars, wrapperVars, codecVars>>

\* the star sends a frame on the lane high
ConnSendFrame ==
    /\ cn.next_frame <= MaxFrames /\ Len(cn.mid["high"].rx) < LANE_QUEUE_SIZE
    /\ cn' = [cn EXCEPT !.mid["high"] =
                            OutTxSend(@, FrameCommand(LaneFrame(cn.next_frame, NoTunnel, NoTunnel))),
                        !.next_frame = @ + 1]
    /\ UNCHANGED <<meshVars, tunnelVars, laneVars, lookupVars, trackerVars, wrapperVars, codecVars>>

\* LaneMiddle::run of a lane takes its next command
ConnMiddleStep(side) ==
    /\ cn.mid[side].running /\ cn.mid[side].rx # <<>>
    /\ cn' = [cn EXCEPT !.mid[side] = LaneMiddleRun([@ EXCEPT !.rx = Tail(@)], Head(cn.mid[side].rx))]
    /\ UNCHANGED <<meshVars, tunnelVars, laneVars, lookupVars, trackerVars, wrapperVars, codecVars>>

\* an incoming side that returns Frame::Close and keeps the tunnel
OnTunnelClosed_KeepTunnel(inc) ==
    [inc EXCEPT !.surfaced = Append(@, LaneClose), !.closes = Append(@, inc.tunnel)]

\* tunnel.rx.recv() returned None: self.tunnel = TunnelInState::None and
\* Frame::Close is returned; closes lists the tunnels this happened for
OnTunnelClosed(inc) ==
    [inc EXCEPT !.surfaced = Append(@, LaneClose), !.closes = Append(@, inc.tunnel),
                !.tunnel = NoTunnel]

\* IncomingSide::recv up to its next await: with no tunnel it takes the next
\* TunnelInState; with a tunnel it returns the next frame, or drops the tunnel
\* and returns Frame::Close when every sender of the tunnel is gone
IncomingRecv(side) ==
    /\ cn.kind = "local"
    /\ LET inc == cn.inc[side]
       IN IF inc.tunnel = NoTunnel
          THEN /\ inc.pending # <<>>
               /\ cn' = [cn EXCEPT !.inc[side] = [@ EXCEPT !.tunnel = Head(inc.pending),
                                                          !.pending = Tail(@),
                                                          !.taken = 0]]
          ELSE IF Incoming(side, inc.tunnel) # <<>>
               THEN cn' = [cn EXCEPT !.inc[side] =
                              [@ EXCEPT !.surfaced = Append(@, Head(Incoming(side, inc.tunnel))),
                                        !.taken = @ + 1]]
               ELSE /\ ~SenderAlive(Other(side), inc.tunnel)
                    /\ cn' = [cn EXCEPT !.inc[side] = OnTunnelClosed(inc)]
    /\ UNCHANGED <<meshVars, tunnelVars, laneVars, lookupVars, trackerVars, wrapperVars, codecVars>>

ConnNext ==
    \/ ConnectorBuild
    \/ ConnectorAttach
    \/ ConnectorRecvCommand
    \/ \E command \in {"Reset", "Close"} : ControllerSend(command)
    \/ ControllerDrop
    \/ ConnSendFrame
    \/ \E side \in Sides : ConnMiddleStep(side)
    \/ \E side \in Sides : IncomingRecv(side)

ConnSpec == ConnInit /\ [][ConnNext]_vars

\* the local connector reset by its controller, again and again
ReconnectInit == ConnInit /\ cn.kind = "local"

ReconnectNext ==
    \/ ConnectorBuild
    \/ ConnectorAttach
    \/ ConnectorRecvCommand
    \/ ControllerSend("Reset")
    \/ ConnSendFrame
    \/ \E side \in Sides : ConnMiddleStep(side)
    \/ \E side \in Sides : IncomingRecv(side)

ReconnectSpec == ReconnectInit /\ [][ReconnectNext]_vars

\* ------------------------------------------------------ LaneWrapper (lane.rs)
\* One lane of a star, held as LaneWrapper::Proto until its ProtoLaneEndpoint
\* is converted, and the calls a star can make on it.
MaxCalls == 3
WrapperKeys == {"A", "B"}

\* ProtoLaneEndpoint::new(star_key) held in a LaneWrapper::Proto
WrapperInit ==
    /\ \E star_key_ \in WrapperKeys \cup {None} :
         lw = [variant |-> "Proto", remote_star |-> star_key_, calls |-> <<>>, tunnels |-> 0]
    /\ MeshIdle /\ TunnelIdle /\ LaneIdle /\ LookupIdle /\ TrackerIdle /\ ConnIdle /\ CodecIdle

\* LaneWrapper::set_remote_star
SetRemoteStar(w, remote_star) ==
    IF w.variant = "Proto" THEN [w EXCEPT !.remote_star = remote_star] ELSE w

\* TryInto<LaneEndpoint> for ProtoLaneEndpoint: Err consumes the endpoint
TryIntoLaneEndpoint(w) ==
    IF w.remote_star # None THEN [w EXCEPT !.variant = "Lane"]
    ELSE [w EXCEPT !.variant = "Dropped"]

WrapperSetRemoteStar(remote_star) ==
    /\ lw.variant # "Dropped" /\ Len(lw.calls) < MaxCalls
    /\ lw' = [SetRemoteStar(lw, remote_star) EXCEPT !.calls = Append(@, remote_star)]
    /\ UNCHANGED <<meshVars, tunnelVars, laneVars, lookupVars, trackerVars, connVars, codecVars>>

WrapperTryInto ==
    /\ lw.variant = "Proto" /\ Len(lw.calls) < MaxCalls
    /\ lw' = [TryIntoLaneEndpoint(lw) EXCEPT !.calls = Append(@, "try_into")]
    /\ UNCHANGED <<meshVars, tunnelVars, laneVars, lookupVars, trackerVars, connVars, codecVars>>

\* a connector hands the lane a tunnel (a first connection or a reconnect):
\* tunnel_receiver_tx.send and LaneCommand::Tunnel leave remote_star alone
WrapperAttach ==
    /\ lw.variant # "Dropped" /\ lw.tunnels < MaxTunnels
    /\ lw' = [lw EXCEPT !.tunnels = @ + 1]
    /\ UNCHANGED <<meshVars, tunnelVars, laneVars, lookupVars, trackerVars, connVars, codecVars>>

WrapperNext ==
    \/ \E remote_star \in WrapperKeys : WrapperSetRemoteStar(remote_star)
    \/ WrapperTryInto
    \/ WrapperAttach

WrapperSpec == WrapperInit /\ [][WrapperNext]_vars

\* ------------------------------------------------------- FrameCodex (lane.rs)
\* Two FrameCodex ends of one TCP stream, one direction of it: the writer task
\* of the sending end, the bytes on the stream, the reader task of the peer.
MaxCodecFrames == 2
CodecQueueSize == 64

Ping == [Blank EXCEPT !.t = "Ping"]
Pong == [Blank EXCEPT !.t = "Pong"]

\* the frames pushed to the codec
CodecFrames == {CloseFrame, Ping, Pong, CentralSearch, CentralFound(1), CentralFound(300)}

\* a u32 written lowest byte first
U32BE_LowFirst(n) == <<n % 256, (n \div 256) % 256, (n \div 65536) % 256, (n \div 16777216) % 256>>

\* write_u32: the four bytes of n, highest first
U32BE(n) == <<(n \div 16777216) % 256, (n \div 65536) % 256, (n \div 256) % 256, n % 256>>

\* read_u32
FromU32BE(b) == b[1] * 16777216 + b[2] * 65536 + b[3] * 256 + b[4]

\* the fixed-width little-endian integers of bincode (values below 2^31)
U32LE(n) == <<n % 256, (n \div 256) % 256, (n \div 65536) % 256, (n \div 16777216) % 256>>
FromU32LE(b) == b[1] + b[2] * 256 + b[3] * 65536 + b[4] * 16777216
U64LE(n) == U32LE(n) \o <<0, 0, 0, 0>>

\* the variant indices of enum Frame, enum ProtoFrame and enum FrameDiagnose
FrameClose == 0
FrameProto == 1
FrameDiagnose == 2
ProtoCentralSearch == 4
ProtoCentralFound == 5
DiagnosePing == 0
DiagnosePong == 1

\* bincode::serialize(&frame): the variant index as a u32, then the fields
Serialize(frame) ==
    CASE frame.t = "Close" -> U32LE(FrameClose)
      [] frame.t = "Ping" -> U32LE(FrameDiagnose) \o U32LE(DiagnosePing)
      [] frame.t = "Pong" -> U32LE(FrameDiagnose) \o U32LE(DiagnosePong)
      [] frame.t = "CentralSearch" -> U32LE(FrameProto) \o U32LE(ProtoCentralSearch)
      [] frame.t = "CentralFound" ->
           U32LE(FrameProto) \o U32LE(ProtoCentralFound) \o U64LE(frame.hops)

DecodeErr == [ok |-> FALSE, frame |-> Blank]
Decoded(frame) == [ok |-> TRUE, frame |-> frame]

\* bincode::deserialize(buf): Err when the bytes run out or name no variant
Deserialize(buf) ==
    IF Len(buf) < 4 THEN DecodeErr
    ELSE LET tag == FromU32LE(SubSeq(buf, 1, 4))
         IN IF tag = FrameClose THEN Decoded(CloseFrame)
            ELSE IF Len(buf) < 8 THEN DecodeErr
            ELSE LET sub == FromU32LE(SubSeq(buf, 5, 8))
                 IN IF tag = FrameDiagnose
                    THEN IF sub = DiagnosePing THEN Decoded(Ping)
                         ELSE IF sub = DiagnosePong THEN Decoded(Pong)
                         ELSE DecodeErr
                    ELSE IF tag = FrameProto
                    THEN IF sub = ProtoCentralSearch THEN Decoded(CentralSearch)
                         ELSE IF sub = ProtoCentralFound
                         THEN IF Len(buf) < 16 \/ SubSeq(buf, 13, 16) # <<0, 0, 0, 0>>
                              THEN DecodeErr
                              ELSE Decoded(CentralFound(FromU32LE(SubSeq(buf, 9, 12))))
                         ELSE DecodeErr
                    ELSE DecodeErr

\* FrameCodex::new on both ends of a stream
CodecInit ==
    /\ cx = [out |-> <<>>, pushed |-> <<>>, writer |-> "recv", data |-> <<>>,
             stream |-> <<>>, reader |-> "len", len |-> 0, in_rx |-> <<>>]
    /\ MeshIdle /\ TunnelIdle /\ LaneIdle /\ LookupIdle /\ TrackerIdle /\ ConnIdle /\ WrapperIdle

\* the caller pushes a frame: out_tx.send(frame).await
CodecPush(frame) ==
    /\ Len(cx.pushed) < MaxCodecFrames /\ Len(cx.out) < CodecQueueSize
    /\ cx' = [cx EXCEPT !.out = Append(@, frame), !.pushed = Append(@, frame)]
    /\ UNCHANGED <<meshVars, tunnelVars, laneVars, lookupVars, trackerVars, connVars, wrapperVars>>

\* the writer task takes a frame; FrameCodex::send serializes it and writes
\* the length, or the write fails and the task ends
WriterSendLen ==
    /\ cx.writer = "recv" /\ cx.out # <<>>
    /\ LET data == Serialize(Head(cx.out))
       IN \E ok \in BOOLEAN :
            cx' = IF ok
                  THEN [cx EXCEPT !.out = Tail(@), !.data = data, !.writer = "write_all",
                                  !.stream = @ \o U32BE(Len(data))]
                  ELSE [cx EXCEPT !.out = Tail(@), !.writer = "ended"]
    /\ UNCHANGED <<meshVars, tunnelVars, laneVars, lookupVars, trackerVars, connVars, wrapperVars>>

\* write_all(data), or the write fails and the task ends
WriterSendData ==
    /\ cx.writer = "write_all"
    /\ \E ok \in BOOLEAN :
         cx' = IF ok
               THEN [cx EXCEPT !.stream = @ \o cx.data, !.data = <<>>, !.writer = "recv"]
               ELSE [cx EXCEPT !.data = <<>>, !.writer = "ended"]
    /\ UNCHANGED <<meshVars, tunnelVars, laneVars, lookupVars, trackerVars, connVars, wrapperVars>>

\* FrameCodex::receive: read_u32
ReaderLen ==
    /\ cx.reader = "len" /\ Len(cx.stream) >= 4
    /\ cx' = [cx EXCEPT !.len = FromU32BE(SubSeq(cx.stream, 1, 4)),
                        !.stream = SubSeq(@, 5, Len(@)), !.reader = "read_exact"]
    /\ UNCHANGED <<meshVars, tunnelVars, laneVars, lookupVars, trackerVars, connVars, wrapperVars>>

\* read_exact and bincode::deserialize, then in_tx.send(frame); an Err ends
\* the reader task
ReaderData ==
    /\ cx.reader = "read_exact" /\ Len(cx.stream) >= cx.len
    /\ LET r == Deserialize(SubSeq(cx.stream, 1, cx.len))
       IN cx' = [cx EXCEPT !.stream = SubSeq(@, cx.len + 1, Len(@)),
                           !.in_rx = IF r.ok THEN Append(@, r.frame) ELSE @,
                           !.reader = IF r.ok THEN "len" ELSE "ended"]
    /\ UNCHANGED <<meshVars, tunnelVars, laneVars, lookupVars, trackerVars, connVars, wrapperVars>>

\* the stream ends under the reader (the writing end is gone and the bytes it
\* waits for will not come): read_u32 or read_exact returns Err
ReaderEof ==
    /\ cx.writer = "ended"
    /\ \/ cx.reader = "len" /\ Len(cx.stream) < 4
       \/ cx.reader = "read_exact" /\ Len(cx.stream) < cx.len
    /\ cx' = [cx EXCEPT !.reader = "ended"]
    /\ UNCHANGED <<meshVars, tunnelVars, laneVars, lookupVars, trackerVars, connVars, wrapperVars>>

CodecNext ==
    \/ \E frame \in CodecFrames : CodecPush(frame)
    \/ WriterSendLen
    \/ WriterSendData
    \/ ReaderLen
    \/ ReaderData
    \/ ReaderEof

CodecSpec == CodecInit /\ [][CodecNext]_vars

\* =================================================================== claims
\* both ends are ProtoTunnels of the same version and each knows its own key
BothKeysKnown ==
    /\ \A side \in Sides : IsTunnel(side) /\ hs[side].star # None
    /\ hs["high"].version = hs["low"].version

\* C1: when both ends of a tunnel pair know their StarKey and run the same
\* protocol version, neither evolve() fails, an end waits only for frames the
\* other end has still to send, and the end that has returned holds the other
\* end's key as its remote_star.
C1_HandshakeSymmetric ==
    BothKeysKnown =>
        \A side \in Sides :
            /\ hs[side].pc # "err"
            /\ hs[side].pc \in {"await_version", "await_key"} =>
                   \/ pipe[Other(side)] # <<>>
                   \/ hs[Other(side)].pc \in {"start", "version_sent"}
            /\ hs[side].pc = "ok" => hs[side].remote_star = hs[Other(side)].star

\* both evolve() calls have returned Ok, each with the key of the other end
C1_Witness ==
    /\ BothKeysKnown
    /\ hs["high"].pc = "ok" /\ hs["high"].star = "A" /\ hs["high"].remote_star = "B"
    /\ hs["low"].pc = "ok" /\ hs["low"].star = "B" /\ hs["low"].remote_star = "A"

\* the frames a tunnel was handed, Frame::Close left out
Delivered(t) == SelectSeq(lm.out[t], LAMBDA f : f # LaneClose)
\* the frames still in the channel into LaneMiddle
InChannel ==
    LET cmds == SelectSeq(lm.rx, LAMBDA c : c.c = "Frame")
    IN [i \in 1..Len(cmds) |-> cmds[i].frame]
RECURSIVE DeliveredCount(_)
DeliveredCount(t) == IF t = 0 THEN 0 ELSE Len(Delivered(t)) + DeliveredCount(t - 1)

\* C2: frames sent on a lane while no tunnel is attached (at first or after a
\* detach) go to the next tunnel attached, in the order they were sent and
\* before any frame sent after that attach: every tunnel is handed exactly the
\* frames meant for it in sending order, nothing stays buffered once a tunnel
\* is attached, and no frame is lost while LaneMiddle runs and no tunnel's
\* codec has stopped.
C2_BufferedFramesInOrder ==
    /\ \A t \in 1..MaxTunnels :
          /\ \A i \in 1..Len(Delivered(t)) : Delivered(t)[i].dest = t
          /\ \A i, j \in 1..Len(Delivered(t)) : i < j => Delivered(t)[i].id < Delivered(t)[j].id
    /\ \A i, j \in 1..Len(lm.queue) : i < j => lm.queue[i].id < lm.queue[j].id
    /\ lm.queue # <<>> => lm.tunnel = NoTunnel
    /\ (lm.running /\ lm.lost = {}) =>
          DeliveredCount(MaxTunnels) + Len(lm.queue) + Len(InChannel) = lm.next_frame - 1

\* the second tunnel was handed two frames sent while no tunnel was attached,
\* then one sent after it was attached
C2_Witness ==
    /\ Len(lm.out[2]) = 3
    /\ lm.out[2][1].att = NoTunnel /\ lm.out[2][2].att = NoTunnel /\ lm.out[2][3].att = 2
    /\ lm.out[2][1].id < lm.out[2][2].id /\ lm.out[2][2].id < lm.out[2][3].id

\* the frames star n put on its lane to l in this step
Added(n, l) == SubSeq(net'[<<n, l>>], Len(net[<<n, l>>]) + 1, Len(net'[<<n, l>>]))

\* in this step the bootstrapping star n handled the frame at the head of lane L
Handled(n, L) ==
    /\ n # L /\ IsProto(n) /\ status[n] = "loop" /\ L \in DOMAIN lanes[n]
    /\ net[<<L, n>>] # <<>> /\ net'[<<L, n>>] = Tail(net[<<L, n>>])

\* the hop count to Central star n knows (NoHops: none)
KnownHops(n) ==
    GetHopsToStar(lanes[n], CHOOSE ord \in Orders(DOMAIN lanes[n]) : TRUE, CentralKey)

\* C3: a bootstrapping star that receives CentralFound(h) on lane L records h
\* for Central on L and sends CentralFound(h + 1) on every other lane, and
\* not on L.
C3_ForwardOnEveryOtherLane ==
    [][\A n, L \in Procs :
          (Handled(n, L) /\ Head(net[<<L, n>>]).t = "CentralFound") =>
             LET h == Head(net[<<L, n>>]).hops
             IN /\ lanes'[n][L][CentralKey] = h
                /\ \A l \in DOMAIN lanes[n] \ {L} : CentralFound(h + 1) \in Range(Added(n, l))
                /\ CentralFound(h + 1) \notin Range(Added(n, L))]_vars

\* C4: a bootstrapping star that knows h hops to Central and receives
\* CentralSearch on lane L sends CentralFound(h + 1) back on L, and on no
\* other lane.
C4_ReplyOnlyOnL ==
    [][\A n, L \in Procs :
          (Handled(n, L) /\ Head(net[<<L, n>>]).t = "CentralSearch" /\ KnownHops(n) # NoHops) =>
             /\ CentralFound(KnownHops(n) + 1) \in Range(Added(n, L))
             /\ \A l \in DOMAIN lanes[n] \ {L} :
                    CentralFound(KnownHops(n) + 1) \notin Range(Added(n, l))]_vars

\* C5: in the line A - B - Central, discovery ends with A's lane to B
\* recording 2 hops to Central and B's lane to Central reporting 1.
C5_LineDiscovery ==
    topo = "line" =>
        <>[](/\ "B" \in DOMAIN lanes["A"]
             /\ LaneGetHops(lanes["A"], "B", CentralKey) = 2
             /\ CentralKey \in DOMAIN lanes["B"]
             /\ LaneGetHops(lanes["B"], CentralKey, CentralKey) = 1)

\* the line has settled: nothing is on the wire, A records 2 on its lane to B
C5_Witness ==
    /\ topo = "line"
    /\ \A q \in Links : net[q] = <<>>
    /\ \A n \in Procs : cmdq[n] = <<>>
    /\ "B" \in DOMAIN lanes["A"] /\ lanes["A"]["B"][CentralKey] = 2
    /\ CentralKey \in DOMAIN lanes["B"] /\ LaneGetHops(lanes["B"], CentralKey, CentralKey) = 1

\* the hop counts the lanes of ls report for star
LaneHopsSet(ls, star) == {LaneGetHops(ls, l, star) : l \in DOMAIN ls} \ {NoHops}

\* C6: get_hops_to_star returns the minimum hop count over all lanes that
\* report a path to the star, and shortest_path_star_key a lane achieving that
\* minimum; both return None when no lane reports a path.
C6_ShortestIsMinimum ==
    lk.done =>
        LET S == LaneHopsSet(lk.lanes, lk.target)
        IN IF S = {}
           THEN lk.hops = NoHops /\ lk.path = NoPath
           ELSE /\ lk.hops = Min(S)
                /\ lk.path.to = lk.target
                /\ lk.path.hops = Min(S)
                /\ lk.path.next_lane \in DOMAIN lk.lanes
                /\ LaneGetHops(lk.lanes, lk.path.next_lane, lk.target) = Min(S)

\* a lookup over three lanes whose hop counts differ, each smaller than the
\* one before it
C6_Witness ==
    /\ lk.done /\ Len(lk.ord) = 3
    /\ LaneGetHops(lk.lanes, lk.ord[1], lk.target) = 3
    /\ LaneGetHops(lk.lanes, lk.ord[2], lk.target) = 2
    /\ LaneGetHops(lk.lanes, lk.ord[3], lk.target) = 1
    /\ lk.hops = 1 /\ lk.path.next_lane = lk.ord[3]

\* C7: a bootstrapping star that holds a key and receives a StarMessage for
\* another star forwards it on a lane toward that star, or holds it for
\* delivery once a lane to that star exists.
C7_ForwardOrHold ==
    [][\A n, L \in Procs :
          (/\ Handled(n, L) /\ Head(net[<<L, n>>]).t = "StarMessage"
           /\ star_key[n] # None /\ Head(net[<<L, n>>]).to # star_key[n]) =>
             LET message == Head(net[<<L, n>>])
             IN \/ \E l \in DOMAIN lanes[n] : message \in Range(Added(n, l))
                \/ Len(frame_hold'[n][message.to]) > Len(frame_hold[n][message.to])]_vars

\* C8: a star that is not central becomes Evolved only by receiving a
\* StarMessage with payload AssignSequence(n) addressed to its own key; it then
\* holds that key and the sequence n. An AssignSequence addressed to another
\* star leaves it bootstrapping.
C8_EvolvedOnlyByOwnAssignSequence ==
    [][\A n \in Procs :
          /\ (~IsCentral(kind[n]) /\ status[n] # "evolved" /\ status'[n] = "evolved") =>
                \E L \in Procs :
                    /\ Handled(n, L)
                    /\ Head(net[<<L, n>>]).t = "StarMessage"
                    /\ Head(net[<<L, n>>]).pl = "AssignSequence"
                    /\ star_key[n] # None
                    /\ Head(net[<<L, n>>]).to = star_key[n]
                    /\ star_key'[n] = star_key[n]
                    /\ sequence'[n] = Head(net[<<L, n>>]).seq
                    /\ sequence'[n] # NoSequence
          /\ \A L \in Procs :
                (/\ Handled(n, L) /\ Head(net[<<L, n>>]).t = "StarMessage"
                 /\ Head(net[<<L, n>>]).pl = "AssignSequence"
                 /\ Head(net[<<L, n>>]).to # star_key[n]) => status'[n] = "loop"]_vars

\* a star of the mesh kind has evolved with its own key and an assigned sequence
C8_Witness ==
    /\ kind["A"] = "mesh" /\ status["A"] = "evolved"
    /\ star_key["A"] = "A" /\ sequence["A"] \in 1..MaxSeq
    /\ evolution_tx["A"] = "A"

\* C9: once A and Central are joined by a local lane and both are started, A
\* ends Evolved with a key that is not Central's, one hop from Central.
C9_LoopbackEvolves ==
    topo = "pair" =>
        <>(/\ status["A"] = "evolved"
           /\ star_key["A"] \notin {None, CentralKey}
           /\ KnownHops("A") = 1)

\* C10: a star of the central kind evolves as soon as it is started: its key is
\* StarKey::central() and its sequence starts at 0, and it puts no frame on
\* any lane and waits for none.
C10_CentralEvolvesAtOnce ==
    [][\A n \in Procs :
          /\ (IsCentral(kind[n]) /\ status[n] = "new" /\ status'[n] # "new") =>
                /\ status'[n] = "evolved"
                /\ star_key'[n] = CentralKey
                /\ sequence'[n] = 0
                /\ net' = net /\ frame_hold' = frame_hold
                /\ tracker' = tracker /\ cmdq' = cmdq
          /\ IsCentral(kind[n]) => status'[n] \in {"new", "evolved"}]_vars

\* a star of the central kind that was built with another key has evolved
C10_Witness ==
    /\ kind["A"] = "central" /\ key0["A"] = "A"
    /\ status["A"] = "evolved" /\ star_key["A"] = CentralKey /\ sequence["A"] = 0

\* ---- the tracker's log
\* the last track among the first j - 1 calls of the log (0: none)
LastTrack(j) ==
    LET T == {i \in 1..(j - 1) : tk.log[i].op = "track"}
    IN IF T = {} THEN 0 ELSE CHOOSE i \in T : \A k \in T : k <= i
\* the predicate that was handed to track together with frame
PredicateOf(frame) == (CHOOSE call \in TrackerCalls : call.frame = frame).expect
\* call k of the log is a process of a frame that the case tracked at i expects
Matched(i, k) ==
    tk.log[k].op = "process" /\ Expect(PredicateOf(tk.log[i].frame), tk.log[k].frame)
\* the checks among calls i + 1 .. j
ChecksBetween(i, j) == {k \in (i + 1)..j : tk.log[k].op = "check"}

\* C11: the tracker has one slot: right after track(frame, predicate) the slot
\* holds that frame with retries 0 whatever it held before, and every
\* FrameTimeout carries the frame of the most recent track
C11_OneCaseLatestTrack ==
    /\ \A j \in 1..Len(tk.log) :
         (tk.log[j].op = "check" /\ tk.log[j].retries > 0)
            => (LastTrack(j) > 0 /\ tk.log[j].frame = tk.log[LastTrack(j)].frame)
    /\ (tk.log # <<>> /\ tk.log[Len(tk.log)].op = "track")
          => /\ HasExpectation(tk.case)
             /\ tk.case.frame = tk.log[Len(tk.log)].frame
             /\ tk.case.retries = 0

\* a case that had timed out once was replaced by the track of another frame,
\* and the next timeout carried the new frame with retries 1
C11_Witness ==
    /\ Len(tk.log) = 4
    /\ tk.log[1].op = "track" /\ tk.log[2].op = "check" /\ tk.log[2].retries = 1
    /\ tk.log[3].op = "track" /\ tk.log[3].frame # tk.log[1].frame
    /\ tk.log[4].op = "check" /\ tk.log[4].frame = tk.log[3].frame /\ tk.log[4].retries = 1

\* C12: process(frame) empties the slot when the predicate of the case holds
\* for frame and otherwise leaves the slot as it was; a check made after the
\* case was matched, and before another track, yields no FrameTimeout
C12_ProcessClearsOnMatch ==
    /\ [][\A frame \in TrackerFrames :
            (tk'.log = Append(tk.log, TrackerEvent("process", frame, 0)))
               => tk'.case = IF HasExpectation(tk.case) /\ Expect(tk.case.expect, frame)
                             THEN NoCase ELSE tk.case]_vars
    /\ [](\A j \in 1..Len(tk.log) :
            (/\ tk.log[j].op = "check" /\ LastTrack(j) > 0
             /\ \E k \in (LastTrack(j) + 1)..(j - 1) : Matched(LastTrack(j), k))
               => tk.log[j].retries = 0)

\* CentralSearch was tracked, a CentralFound was processed, and the check made
\* afterwards found the slot empty
C12_Witness ==
    /\ Len(tk.log) >= 3
    /\ tk.log[1] = TrackerEvent("track", CentralSearch, 0)
    /\ tk.log[2] = TrackerEvent("process", CentralFound(1), 0)
    /\ tk.log[3].op = "check" /\ tk.log[3].retries = 0
    /\ ~HasExpectation(tk.case)

\* C13: while the case stays unmatched, the n-th check after its track yields
\* a FrameTimeout with the tracked frame and retries = n
C13_RetriesCountTimeouts ==
    \A j \in 1..Len(tk.log) :
       (/\ tk.log[j].op = "check" /\ LastTrack(j) > 0
        /\ \A k \in (LastTrack(j) + 1)..(j - 1) : ~Matched(LastTrack(j), k))
          => /\ tk.log[j].frame = tk.log[LastTrack(j)].frame
             /\ tk.log[j].retries = Cardinality(ChecksBetween(LastTrack(j), j))

\* three timeouts of one case, with retries 1, 2 and 3
C13_Witness ==
    /\ Len(tk.log) = 4
    /\ tk.log[1].op = "track"
    /\ \A j \in 2..4 : tk.log[j] = TrackerEvent("check", tk.log[1].frame, j - 1)

\* C14: on every FrameTimeout a star that has at least one lane puts the
\* tracked frame on the outgoing queue of at least one of its lanes
C14_TimeoutResends ==
    [][\A n \in Procs :
          (/\ IsProto(n) /\ status[n] = "loop" /\ HasExpectation(tracker[n])
           /\ tracker'[n] = Check(tracker[n])
           /\ DOMAIN lanes[n] # {})
             => \E l \in DOMAIN lanes[n] : tracker[n].frame \in Range(Added(n, l))]_vars

\* C15: on any lane, get_hops(S) right after set_hops(S, n) is Some(n) when S
\* is not the lane's remote star; get_hops of the lane's remote star is
\* Some(1) whatever the cache holds, an entry for the remote star included
C15_HopCache ==
    /\ \A l \in DOMAIN lk.lanes : LaneGetHops(lk.lanes, l, l) = 1
    /\ (lk.set # NoSet /\ lk.set.star # lk.set.lane)
          => LaneGetHops(lk.lanes, lk.set.lane, lk.set.star) = lk.set.hops

\* the lane to Central was told Central is 3 hops away and still reports 1,
\* and a lane to another star was told 3 hops for Central and reports 3
C15_Witness ==
    /\ lk.set = [lane |-> CentralKey, star |-> CentralKey, hops |-> 3]
    /\ lk.lanes[CentralKey][CentralKey] = 3
    /\ LaneGetHops(lk.lanes, CentralKey, CentralKey) = 1
    /\ "B" \in DOMAIN lk.lanes /\ LaneGetHops(lk.lanes, "B", CentralKey) = 3

\* C16: when the two ends announce different protocol versions, neither end
\* returns a Tunnel and each end that fails does so with the wrong-version
\* error
C16_VersionMismatch ==
    (IsTunnel("high") /\ IsTunnel("low") /\ hs["high"].version # hs["low"].version)
       => \A side \in Sides :
             /\ hs[side].pc # "ok"
             /\ hs[side].pc = "err" => hs[side].err = "wrong version"

\* both ends, each knowing its key, have failed on the other's version
C16_Witness ==
    /\ IsTunnel("high") /\ IsTunnel("low") /\ hs["high"].version # hs["low"].version
    /\ hs["high"].star # None /\ hs["low"].star # None
    /\ \A side \in Sides : hs[side].pc = "err" /\ hs[side].err = "wrong version"

\* C17: a first received frame other than the protocol version and a second
\* received frame other than ReportStarKey fail as an unexpected frame;
\* disconnected is reported only when the channel closed with no frame received
C17_HandshakeErrorKinds ==
    [][\A side \in Sides :
          (IsTunnel(side) /\ hs'[side].pc # hs[side].pc) =>
             LET frame == RxRecv(side)
             IN /\ (hs[side].pc = "await_version" /\ frame # NoFrame
                       /\ frame.t # "StarLaneProtocolVersion")
                      => (hs'[side].pc = "err" /\ hs'[side].err = "unexpected star gram")
                /\ (hs[side].pc = "await_key" /\ frame # NoFrame /\ frame.t # "ReportStarKey")
                      => (hs'[side].pc = "err" /\ hs'[side].err = "unexpected star gram")
                /\ (hs'[side].pc = "err" /\ hs'[side].err \in {"disconnected", "disconnected!"})
                      => frame = NoFrame]_vars

\* C18: on a lane pair joined by the local connector, with no handshake
\* failed and no command but Reset received, the frames the peer's incoming
\* side surfaces are the frames sent on the other endpoint, in order, with no
\* Close or other frame among them
C18_LoopbackSurfacesSentFrames ==
    (cn # <<>> /\ cn.kind = "local" /\ cn.commands \subseteq {"Reset"} /\ cn.failed = 0)
       => \A i \in 1..Len(cn.inc["low"].surfaced) :
             cn.inc["low"].surfaced[i] = LaneFrame(i, NoTunnel, NoTunnel)

\* C19: once a connector has received Close it builds no further tunnel and
\* attaches none
C19_NoTunnelAfterClose ==
    [][(cn # <<>> /\ cn.closed) => (cn'.built = cn.built /\ cn'.pc # "attach")]_vars

\* C20: a handshake failure of the outbound dialer does not end the connector
C20_DialerRetriesAfterFailure ==
    (cn # <<>> /\ cn.kind = "client" /\ cn.failed > 0) => cn.pc # "done"

\* C21: a local connector whose handshakes have just failed attaches nothing
\* and goes on to build the pair again by itself: it is never left waiting for
\* a command
C21_LocalRetriesWithoutCommand ==
    (cn # <<>> /\ cn.kind = "local" /\ cn.last = "Err")
       => (cn.pc # "await_command" /\ cn.pc # "attach")

\* C22: a frame sent to the lane after the codec of its attached tunnel has
\* stopped is not dropped: it waits in the channel into LaneMiddle, or in the
\* buffer, or it was handed to a tunnel attached later
C22_BufferedAfterTunnelLoss ==
    (lm # <<>> /\ lm.running) =>
       \A id \in lm.late :
          \/ \E i \in 1..Len(InChannel) : InChannel[i].id = id
          \/ \E i \in 1..Len(lm.queue) : lm.queue[i].id = id
          \/ \E t \in 1..MaxTunnels : \E i \in 1..Len(lm.out[t]) : lm.out[t][i].id = id

\* C23: a bootstrapping star that takes Frame::Close from a lane stays in its
\* loop and keeps its lanes, its StarKey and its tracker case; the frames and
\* commands still waiting stay where they are
C23_CloseKeepsBootstrapping ==
    [][\A n, L \in Procs :
          (Handled(n, L) /\ Head(net[<<L, n>>]) = CloseFrame) =>
             /\ status'[n] = "loop"
             /\ lanes'[n] = lanes[n]
             /\ star_key'[n] = star_key[n]
             /\ tracker'[n] = tracker[n]
             /\ frame_hold'[n] = frame_hold[n]
             /\ cmdq'[n] = cmdq[n]
             /\ \A M \in Procs \ {n, L} : net'[<<M, n>>] = net[<<M, n>>]]_vars

\* Frame::Close is the next frame on a lane of a bootstrapping star that has a
\* tracker case
C23_Witness ==
    \E n, L \in Procs :
       /\ n # L /\ IsProto(n) /\ status[n] = "loop" /\ L \in DOMAIN lanes[n]
       /\ net[<<L, n>>] # <<>> /\ Head(net[<<L, n>>]) = CloseFrame
       /\ HasExpectation(tracker[n])

\* star S can be sent to from star n: some lane has a path to it
Routable(ls, S) == \E ord \in Orders(DOMAIN ls) : LaneWithShortestPathToStar(ls, ord, S) # None

\* C24: when a star S with held frames becomes routable (a lane to S is added,
\* or a lane's hop cache gains an entry for S), the frames held for S are sent
\* in the order they were held and none stays held
C24_HeldReleasedWhenRoutable ==
    [][\A n \in Procs : \A S \in StarKeys :
          (/\ IsProto(n) /\ status[n] = "loop" /\ status'[n] = "loop"
           /\ frame_hold[n][S] # <<>>
           /\ ~Routable(lanes[n], S) /\ Routable(lanes'[n], S)) =>
             /\ frame_hold'[n][S] = <<>>
             /\ \E l \in DOMAIN lanes'[n] :
                   /\ Len(Added(n, l)) >= Len(frame_hold[n][S])
                   /\ SubSeq(Added(n, l), 1, Len(frame_hold[n][S])) = frame_hold[n][S]]_vars

\* C25: the remote_star of a lane, once set, stays what it is under
\* set_remote_star, new tunnels and the conversion to a LaneEndpoint
C25_RemoteStarNeverChanges ==
    [][(lw # <<>> /\ lw.remote_star # None /\ lw'.variant # "Dropped") =>
          lw'.remote_star = lw.remote_star]_vars

\* C26: no star sends CentralFound(h) with h above MAX_HOPS, and no hop cache
\* of a star holds a hop count above MAX_HOPS
C26_HopsWithinMaxHops ==
    \A n \in Procs : IsProto(n) =>
       /\ \A m \in Procs \ {n} : \A i \in 1..Len(net[<<n, m>>]) :
             net[<<n, m>>][i].t = "CentralFound" => net[<<n, m>>][i].hops <= MAX_HOPS
       /\ \A l \in DOMAIN lanes[n] : \A S \in StarKeys : lanes[n][l][S] <= MAX_HOPS

\* C27: in the triangle the CentralFound flood ends: no CentralFound frame
\* goes once round the three stars and on, so the hop count of every frame in
\* flight stays within the number of stars
C27_TriangleFloodEnds ==
    topo = "triangle" =>
       \A q \in Links : \A i \in 1..Len(net[q]) :
          net[q][i].t = "CentralFound" => net[q][i].hops <= Cardinality({n \in Procs : IsProto(n)})

\* C28: a star that is not central and starts without a StarKey leaves its
\* start with a tracker case for RequestSubgraphExpansion, one that a
\* GrantSubgraphExpansion frame clears
C28_KeylessStartRequestsExpansion ==
    [][\A n \in Procs :
          (/\ IsProto(n) /\ ~IsCentral(kind[n]) /\ star_key[n] = None
           /\ status[n] = "new" /\ status'[n] = "loop") =>
             /\ tracker'[n].frame = RequestSubgraphExpansion
             /\ \A p \in SubgraphPaths :
                   Process(tracker'[n], GrantSubgraphExpansion(p)) = NoCase]_vars

\* C29: no buffer of a lane outgrows its capacity: the channel into
\* LaneMiddle holds at most LANE_QUEUE_SIZE commands, and the frames LaneMiddle
\* keeps while it has no tunnel are at most as many
C29_BuffersBounded ==
    lm # <<>> => (Len(lm.rx) <= LANE_QUEUE_SIZE /\ Len(lm.queue) <= LANE_QUEUE_SIZE)

\* C30: the peer's inbound queue yields the frames pushed to the outbound
\* queue, in order: what was received is always the start of what was pushed,
\* the length the reader takes off the stream is the number of payload bytes
\* of the frame it is about to read, and once every pushed frame has been
\* written and read the two sequences are the same
C30_CodecRoundTrip ==
    cx # <<>> =>
       /\ Len(cx.in_rx) <= Len(cx.pushed)
       /\ cx.in_rx = SubSeq(cx.pushed, 1, Len(cx.in_rx))
       /\ cx.reader = "read_exact" =>
             /\ Len(cx.in_rx) < Len(cx.pushed)
             /\ cx.len = Len(Serialize(cx.pushed[Len(cx.in_rx) + 1]))
       /\ (/\ cx.out = <<>> /\ cx.writer = "recv"
           /\ cx.stream = <<>> /\ cx.reader = "len") => cx.in_rx = cx.pushed

\* two frames, one of them with a hop count of more than one byte, were pushed
\* and have both come out of the peer's inbound queue
C30_Witness ==
    /\ cx # <<>> /\ Len(cx.pushed) = MaxCodecFrames /\ cx.in_rx = cx.pushed
    /\ CentralFound(300) \in Range(cx.pushed)

\* C31: send_frame hands the frame to a lane whose hop count to the star is
\* the minimum over the lanes that report a path, and holds it only when no
\* lane reports one
C31_SendFrameOnShortestLane ==
    lk.done =>
        LET S == LaneHopsSet(lk.lanes, lk.target)
            e == SendFrame(lk.lanes, lk.ord, lk.target, CentralSearch)[1]
        IN IF S = {}
           THEN e.lane = None /\ e.hold
           ELSE /\ e.lane \in DOMAIN lk.lanes
                /\ LaneGetHops(lk.lanes, e.lane, lk.target) = Min(S)

\* the number of lanes between star n and Central in the closed constellations
TrueHops(n) ==
    CASE topo = "line" /\ n = "A" -> 2
      [] topo = "chain" /\ n = "A" -> 2
      [] topo = "chain" /\ n = "D" -> 3
      [] OTHER -> 1

\* the number of lanes between star n and Central on the path that starts
\* with n's lane to l, NoHops when no such path exists
TrueLaneHops(n, l) ==
    IF l = CentralKey THEN 1
    ELSE IF topo \in {"line", "chain"} /\ n = "A" /\ l = "B" THEN 2
    ELSE IF topo = "chain" /\ n = "D" /\ l = "A" THEN 3
    ELSE NoHops

\* every lane has been added and no frame or command is waiting anywhere
Quiesced ==
    /\ \A q \in Links : net[q] = <<>>
    /\ \A n \in Procs : IsProto(n) => cmdq[n] = <<>> /\ status[n] \in {"loop", "evolved"}

\* C32: in the pair, the line and the chain, once nothing is in flight every
\* non-Central star's get_hops_to_star(Central) is its distance to Central and
\* every one of its lanes records the distance through that lane
C32_QuiescedHopsAreDistances ==
    (topo \in {"pair", "line", "chain"} /\ Quiesced) =>
        \A n \in Procs :
            kind[n] = "mesh" =>
                /\ KnownHops(n) = TrueHops(n)
                /\ \A l \in DOMAIN lanes[n] :
                       LaneGetHops(lanes[n], l, CentralKey) = TrueLaneHops(n, l)

\* C33: set_hops always overwrites: after set_hops(S, a) and then
\* set_hops(S, b) on one lane whose remote star is not S, get_hops(S) is
\* Some(b), whether b is smaller or greater than a
C33_SetHopsOverwrites ==
    (/\ lk.prev # NoSet
     /\ lk.set.lane = lk.prev.lane /\ lk.set.star = lk.prev.star
     /\ lk.set.star # lk.set.lane)
        => LaneGetHops(lk.lanes, lk.set.lane, lk.set.star) = lk.set.hops

\* the lane to B was told 1 hop to Central and then 3, and reports 3
C33_Witness ==
    /\ lk.prev = [lane |-> "B", star |-> CentralKey, hops |-> 1]
    /\ lk.set = [lane |-> "B", star |-> CentralKey, hops |-> 3]
    /\ LaneGetHops(lk.lanes, "B", CentralKey) = 3

\* C34: a bootstrapping star that takes a StarCommand::Frame does not fail on
\* the lane it looks up from the select index, whether the command came from
\* a lane's incoming side or from the star's command queue
C34_FrameCommandNeverFails ==
    [][\A n \in Procs :
          (/\ IsProto(n) /\ status[n] = "loop"
           /\ cmdq[n] # <<>> /\ Head(cmdq[n]).c = "Frame"
           /\ cmdq'[n] = Tail(cmdq[n]))
             => status'[n] # "panicked"]_vars

C36_HandshakeTerminates ==
    (IsTunnel("high") /\ IsTunnel("low")) =>
        \A side \in Sides : <>(hs[side].pc \in {"ok", "err"})

\* C37: the StarKey of a star in its bootstrap loop, once set, stays what it
\* is: no frame it handles, GrantSubgraphExpansion included, replaces it
C37_StarKeyNeverReplaced ==
    [][\A n \in Procs :
          (IsProto(n) /\ status[n] = "loop" /\ star_key[n] # None)
             => star_key'[n] = star_key[n]]_vars

\* C38: every star that has evolved, the central one included, has sent its
\* own StarKey on its one-shot evolution channel
C38_EvolvedHasSignalled ==
    \A n \in Procs :
        (IsProto(n) /\ status[n] = "evolved")
           => (evolution_tx[n] # None /\ evolution_tx[n] = star_key[n])

\* the tunnel a surfaced frame came through on its way to `side`
TunnelOf(side, frame) ==
    CHOOSE t \in 1..MaxTunnels : frame \in Range(cn.mid[Other(side)].out[t])

HandledAddLane(n) ==
    /\ IsProto(n) /\ status[n] = "loop"
    /\ cmdq[n] # <<>> /\ Head(cmdq[n]).c = "AddLane" /\ cmdq'[n] = Tail(cmdq[n])

\* C40: an AddLane whose lane has no remote_star leaves the lanes map,
\* frame_hold and the tracker of the star as they were and sends no frame; an
\* AddLane with a remote_star inserts one lane under that key, keeps the other
\* lanes, and puts CentralSearch on every lane of the star.
C40_AddLaneEffect ==
    [][\A n \in Procs :
          HandledAddLane(n) =>
             LET remote_star == Head(cmdq[n]).remote
             IN IF remote_star = None
                THEN /\ lanes'[n] = lanes[n]
                     /\ frame_hold'[n] = frame_hold[n]
                     /\ tracker'[n] = tracker[n]
                     /\ \A q \in Links : q[1] = n => net'[q] = net[q]
                ELSE /\ DOMAIN lanes'[n] = DOMAIN lanes[n] \cup {remote_star}
                     /\ \A l \in DOMAIN lanes[n] \ {remote_star} : lanes'[n][l] = lanes[n][l]
                     /\ \A l \in DOMAIN lanes'[n] : CentralSearch \in Range(Added(n, l))]_vars

\* C40, the lane without a remote_star alone
C40_NoRemoteStarIsNoOp ==
    [][\A n \in Procs :
          (HandledAddLane(n) /\ Head(cmdq[n]).remote = None) =>
             /\ lanes'[n] = lanes[n]
             /\ frame_hold'[n] = frame_hold[n]
             /\ tracker'[n] = tracker[n]
             /\ \A q \in Links : q[1] = n => net'[q] = net[q]]_vars

====
